---------------------------- MODULE Spec2Model ----------------------------
(***************************************************************************)
(* A model of the analytical core of sodapop: the KIKcd_H administrative   *)
(* hierarchy (core/hierarchy.py), the demographic processor                *)
(* (core/processor.py) and the trend analyzer (core/analyzer.py).          *)
(*                                                                         *)
(* Representation.  A Python str that the code slices (a region code, a    *)
(* label) is a sequence of one-character strings; a str that the code only *)
(* stores, compares or concatenates (a region name) is a TLA+ string.      *)
(* Korean text is written in romanised form, since the module is ASCII:    *)
(*   "Seoul" = 서울특별시, "Gangnam" = 강남구, ...                         *)
(* A Python dict is a sequence of [k, v] pairs in insertion order.         *)
(***************************************************************************)
EXTENDS Integers, Sequences, FiniteSets, TLC

VARIABLES
    \* ---- KIKcdHierarchy instance (hierarchy.py:115-120)
    _regions,         \* Dict[str, Region]
    _sido_index,      \* Dict[str, List[str]]  sido_code -> [sigungu codes]
    _sigungu_index,   \* Dict[str, List[str]]  sigungu_code -> [emd codes]
    hcall,            \* the last add_region call: its arguments and result
    hcalls,           \* number of add_region calls made so far
    \* ---- TrendAnalyzer (analyzer.py)
    NATIONAL_REFERENCE, \* the dict of the class body, which every instance reads
    analyzers,          \* the instances: analysis_years, start_year, end_year,
                        \* _national_data
    acall,              \* the last call on an analyzer: arguments and result
    arefs,              \* number of set_national_reference calls made so far
    aqueries,           \* number of calls made so far that ask for an analysis
    \* ---- DemographicProcessor (processor.py)
    processor,          \* the instance: analysis_years, _cache
    pdf,                \* the DataFrame the caller holds
    pchildren,          \* the list of child series the caller holds
    pcall,              \* the last call on the processor: arguments and result
    \* ---- a call of one of the pure code functions of the hierarchy
    ccode,            \* the code argument
    cout,             \* the call made on it and what it returned
    \* ---- a call of one of the pure functions of the processor or the analyzer
    fin,              \* the function and its arguments: f, x, y, z, s
    fout              \* whether the call was made, and what it returned

hvars == <<_regions, _sido_index, _sigungu_index, hcall, hcalls>>
cvars == <<ccode, cout>>
avars == <<NATIONAL_REFERENCE, analyzers, acall, arefs, aqueries>>
pvars == <<processor, pdf, pchildren, pcall>>
fvars == <<fin, fout>>
vars == <<hvars, cvars, avars, pvars, fvars>>

---------------------------------------------------------------------------
(* Python built-ins *)

Min(a, b) == IF a <= b THEN a ELSE b
Max(a, b) == IF a >= b THEN a ELSE b

\* s.ljust(n, fill)
LJust(s, n, fill) ==
    IF Len(s) >= n THEN s ELSE s \o [i \in 1..(n - Len(s)) |-> fill]

\* s[a:b] for 0 <= a <= b
Slice(s, a, b) == SubSeq(s, a + 1, Min(b, Len(s)))

\* set(l)
SeqToSet(l) == {l[i] : i \in 1..Len(l)}
\* x in list
InList(x, l) == \E i \in 1..Len(l) : l[i] = x

\* dict: a sequence of [k |-> key, v |-> value] in insertion order
DictHas(d, key) == \E i \in 1..Len(d) : d[i].k = key
DictGet(d, key, default) ==
    IF DictHas(d, key)
    THEN d[CHOOSE i \in 1..Len(d) : d[i].k = key].v
    ELSE default
\* d[key] = value: an existing key keeps its position
DictSet(d, key, value) ==
    IF DictHas(d, key)
    THEN [i \in 1..Len(d) |-> IF d[i].k = key THEN [k |-> key, v |-> value] ELSE d[i]]
    ELSE Append(d, [k |-> key, v |-> value])
DictKeys(d) == {d[i].k : i \in 1..Len(d)}
DictValues(d) == [i \in 1..Len(d) |-> d[i].v]

\* \d, and int() of a run of digits
Digits == <<"0", "1", "2", "3", "4", "5", "6", "7", "8", "9">>
IsDigit(c) == InList(c, Digits)
DigitValue(c) == (CHOOSE i \in 1..Len(Digits) : Digits[i] = c) - 1
RECURSIVE DigitRun(_)
DigitRun(s) == IF s # <<>> /\ IsDigit(s[1]) THEN 1 + DigitRun(Tail(s)) ELSE 0
RECURSIVE IntOf(_)
IntOf(ds) ==
    IF ds = <<>> THEN 0
    ELSE IntOf(SubSeq(ds, 1, Len(ds) - 1)) * 10 + DigitValue(ds[Len(ds)])

\* None, where a code (a sequence) is expected, and where a Region is expected
None == <<"None">>
NoneRegion == [is_none |-> TRUE]
\* None where a str (expired_date) is expected
NoneStr == <<"None">>
\* bool(x) of an Optional[str] code
Truthy(x) == x # None /\ x # <<>>

---------------------------------------------------------------------------
(* hierarchy.py: AdminLevel, Region, KIKcdHierarchy *)

NATIONAL == "NATIONAL"
SIDO == "SIDO"
SIGUNGU == "SIGUNGU"
EMD == "EMD"
AdminLevel == {NATIONAL, SIDO, SIGUNGU, EMD}
\* AdminLevel.value
LevelValue(l) ==
    CASE l = NATIONAL -> 0 [] l = SIDO -> 1 [] l = SIGUNGU -> 2 [] l = EMD -> 3

CODE_LEN == 10
SIDO_LEN == 2
SIGUNGU_LEN == 5

Region(code, name, name_full, level, parent_code, is_active, expired_date) ==
    [code |-> code, name |-> name, name_full |-> name_full, level |-> level,
     parent_code |-> parent_code, is_active |-> is_active,
     expired_date |-> expired_date]

\* SIDO_CODES, in the order of the dict literal
SIDO_CODES ==
    << [k |-> <<"1","1">>, v |-> "Seoul"],
       [k |-> <<"2","6">>, v |-> "Busan"],
       [k |-> <<"2","7">>, v |-> "Daegu"],
       [k |-> <<"2","8">>, v |-> "Incheon"],
       [k |-> <<"2","9">>, v |-> "Gwangju"],
       [k |-> <<"3","0">>, v |-> "Daejeon"],
       [k |-> <<"3","1">>, v |-> "Ulsan"],
       [k |-> <<"3","6">>, v |-> "Sejong"],
       [k |-> <<"4","1">>, v |-> "Gyeonggi"],
       [k |-> <<"4","2">>, v |-> "Gangwon"],
       [k |-> <<"4","3">>, v |-> "Chungbuk"],
       [k |-> <<"4","4">>, v |-> "Chungnam"],
       [k |-> <<"4","5">>, v |-> "Jeonbuk"],
       [k |-> <<"4","6">>, v |-> "Jeonnam"],
       [k |-> <<"4","7">>, v |-> "Gyeongbuk"],
       [k |-> <<"4","8">>, v |-> "Gyeongnam"],
       [k |-> <<"5","0">>, v |-> "Jeju"] >>

\* code = str(code).ljust(10, '0')[:10]
PadCode(code) == Slice(LJust(code, CODE_LEN, "0"), 0, CODE_LEN)

\* parse_code: (level, sido, sigungu, emd)
parse_code(code0) ==
    LET code == PadCode(code0)
        sido == Slice(code, 0, SIDO_LEN)
        sigungu == Slice(code, SIDO_LEN, SIGUNGU_LEN)
        emd == Slice(code, SIGUNGU_LEN, CODE_LEN)
        level == IF emd # <<"0","0","0","0","0">> THEN EMD
                 ELSE IF sigungu # <<"0","0","0">> THEN SIGUNGU
                 ELSE IF sido # <<"0","0">> THEN SIDO
                 ELSE NATIONAL
    IN  [level |-> level, sido |-> sido, sigungu |-> sigungu, emd |-> emd]

\* normalize_code with the SIGUNGU branch cutting at the sido prefix
normalize_code_SigunguCutAtSido(code0, target_level) ==
    LET code == PadCode(code0)
    IN  IF target_level = SIDO THEN LJust(Slice(code, 0, SIDO_LEN), CODE_LEN, "0")
        ELSE IF target_level = SIGUNGU
             THEN LJust(Slice(code, 0, SIDO_LEN), CODE_LEN, "0")
        ELSE code

normalize_code(code0, target_level) ==
    LET code == PadCode(code0)
    IN  IF target_level = SIDO THEN LJust(Slice(code, 0, SIDO_LEN), CODE_LEN, "0")
        ELSE IF target_level = SIGUNGU
             THEN LJust(Slice(code, 0, SIGUNGU_LEN), CODE_LEN, "0")
        ELSE code

\* get_parent_code with the EMD branch returning the sido code
get_parent_code_EmdToSido(code) ==
    LET p == parse_code(code)
    IN  IF p.level = EMD THEN LJust(p.sido, CODE_LEN, "0")
        ELSE IF p.level = SIGUNGU THEN LJust(p.sido, CODE_LEN, "0")
        ELSE None

get_parent_code(code) ==
    LET p == parse_code(code)
    IN  IF p.level = EMD THEN LJust(p.sido \o p.sigungu, CODE_LEN, "0")
        ELSE IF p.level = SIGUNGU THEN LJust(p.sido, CODE_LEN, "0")
        ELSE None

_get_level(code) == parse_code(code).level

\* _initialize_sido: the state __init__ leaves
InitRegions ==
    [i \in 1..Len(SIDO_CODES) |->
        LET full_code == LJust(SIDO_CODES[i].k, CODE_LEN, "0")
        IN  [k |-> full_code,
             v |-> Region(full_code, SIDO_CODES[i].v, SIDO_CODES[i].v, SIDO,
                          None, TRUE, NoneStr)]]
InitSidoIndex ==
    [i \in 1..Len(SIDO_CODES) |->
        [k |-> LJust(SIDO_CODES[i].k, CODE_LEN, "0"), v |-> <<>>]]

HInit ==
    /\ _regions = InitRegions
    /\ _sido_index = InitSidoIndex
    /\ _sigungu_index = <<>>
    /\ hcall = [op |-> "init"]
    /\ hcalls = 0

\* IndexAdd without the `if code not in ...` test
IndexAdd_NoDedupe(index, key, code) ==
    LET created == IF ~DictHas(index, key) THEN DictSet(index, key, <<>>) ELSE index
    IN  DictSet(created, key, Append(DictGet(created, key, <<>>), code))

\* add_region, lines 222-225 and 234-237: index `code` under `key`
IndexAdd(index, key, code) ==
    LET created == IF ~DictHas(index, key) THEN DictSet(index, key, <<>>) ELSE index
        children == DictGet(created, key, <<>>)
    IN  IF ~InList(code, children)
        THEN DictSet(created, key, Append(children, code))
        ELSE created

\* AddRegionNaming with a second-level region named as its own parent
AddRegionNaming_ParentIsSelf(regions, code, name) ==
    LET p == parse_code(code)
        sido_code == LJust(p.sido, CODE_LEN, "0")
        sido_name == DictGet(regions, sido_code,
                             Region(sido_code, "", "", SIDO, None, TRUE, NoneStr)).name
        sigungu_code == LJust(p.sido \o p.sigungu, CODE_LEN, "0")
        sigungu_region == DictGet(regions, sigungu_code, NoneRegion)
        sigungu_name == IF sigungu_region # NoneRegion THEN sigungu_region.name ELSE ""
    IN  IF p.level = SIGUNGU
        THEN [name_full |-> sido_name \o " " \o name, parent_code |-> code]
        ELSE IF p.level = EMD
        THEN [name_full |-> sido_name \o " " \o sigungu_name \o " " \o name,
              parent_code |-> sigungu_code]
        ELSE [name_full |-> name, parent_code |-> None]

\* add_region, lines 214-240: (name_full, parent_code) of the new region
AddRegionNaming(regions, code, name) ==
    LET p == parse_code(code)
        sido_code == LJust(p.sido, CODE_LEN, "0")
        sido_name == DictGet(regions, sido_code,
                             Region(sido_code, "", "", SIDO, None, TRUE, NoneStr)).name
        sigungu_code == LJust(p.sido \o p.sigungu, CODE_LEN, "0")
        sigungu_region == DictGet(regions, sigungu_code, NoneRegion)
        sigungu_name == IF sigungu_region # NoneRegion THEN sigungu_region.name ELSE ""
    IN  IF p.level = SIGUNGU
        THEN [name_full |-> sido_name \o " " \o name, parent_code |-> sido_code]
        ELSE IF p.level = EMD
        THEN [name_full |-> sido_name \o " " \o sigungu_name \o " " \o name,
              parent_code |-> sigungu_code]
        ELSE [name_full |-> name, parent_code |-> None]

\* AddRegionKey without the [:10] truncation
AddRegionKey_NoTruncate(code0) == LJust(code0, CODE_LEN, "0")

\* the key add_region stores the region under (line 211, used at line 252)
AddRegionKey(code0) == PadCode(code0)

add_region(code0, name, is_active, expired_date) ==
    LET code == AddRegionKey(code0)
        p == parse_code(code)
        sido_code == LJust(p.sido, CODE_LEN, "0")
        sigungu_code == LJust(p.sido \o p.sigungu, CODE_LEN, "0")
        nm == AddRegionNaming(_regions, code, name)
        region == Region(code, name, nm.name_full, p.level, nm.parent_code,
                         is_active, expired_date)
    IN  /\ _sido_index' = IF p.level = SIGUNGU
                          THEN IndexAdd(_sido_index, sido_code, code)
                          ELSE _sido_index
        /\ _sigungu_index' = IF p.level = EMD
                             THEN IndexAdd(_sigungu_index, sigungu_code, code)
                             ELSE _sigungu_index
        /\ _regions' = DictSet(_regions, code, region)
        /\ hcall' = [op |-> "add_region", code |-> code0, name |-> name,
                     is_active |-> is_active, expired_date |-> expired_date,
                     ret |-> region]
        /\ hcalls' = hcalls + 1

get_region(code) == DictGet(_regions, PadCode(code), NoneRegion)

\* int(expired_date[:4]): <<year>>, or <<>> for a ValueError
ExpYear(expired_date) ==
    LET s == Slice(expired_date, 0, 4)
    IN  IF s # <<>> /\ \A i \in 1..Len(s) : IsDigit(s[i]) THEN <<IntOf(s)>> ELSE <<>>

\* a variant that also skips an inactive region with no expired_date
FilterSkips_InactiveDropped(code, reference_year) ==
    LET region == get_region(code)
    IN  IF region = NoneRegion THEN TRUE
        ELSE IF ~region.is_active
        THEN LET exp_year == IF Truthy(region.expired_date)
                             THEN ExpYear(region.expired_date) ELSE <<>>
             IN  exp_year = <<>> \/ exp_year[1] < reference_year - 5
        ELSE FALSE

\* filter_active_regions, lines 280-291: whether the loop skips this code
FilterSkips(code, reference_year) ==
    LET region == get_region(code)
    IN  IF region = NoneRegion THEN TRUE
        ELSE IF ~region.is_active /\ Truthy(region.expired_date)
        THEN LET exp_year == ExpYear(region.expired_date)
             IN  exp_year # <<>> /\ exp_year[1] < reference_year - 5
        ELSE FALSE

RECURSIVE filter_active_regions(_, _)
filter_active_regions(codes, reference_year) ==
    IF codes = <<>> THEN <<>>
    ELSE (IF FilterSkips(Head(codes), reference_year) THEN <<>> ELSE <<Head(codes)>>)
         \o filter_active_regions(Tail(codes), reference_year)

\* get_children_codes looking a sido up in the sigungu index and vice versa
get_children_codes_Swapped(code) ==
    LET normalized == normalize_code(code, _get_level(code))
        level == _get_level(code)
    IN  IF level = SIDO THEN DictGet(_sigungu_index, normalized, <<>>)
        ELSE IF level = SIGUNGU THEN DictGet(_sido_index, normalized, <<>>)
        ELSE <<>>

get_children_codes(code) ==
    LET normalized == normalize_code(code, _get_level(code))
        level == _get_level(code)
    IN  IF level = SIDO THEN DictGet(_sido_index, normalized, <<>>)
        ELSE IF level = SIGUNGU THEN DictGet(_sigungu_index, normalized, <<>>)
        ELSE <<>>

navigate_up(code) ==
    LET parent_code == get_parent_code(code)
    IN  IF Truthy(parent_code) THEN get_region(parent_code) ELSE NoneRegion

IsRegistered(c) == get_region(c) # NoneRegion

navigate_down(code) ==
    LET children_codes == get_children_codes(code)
        kept == SelectSeq(children_codes, IsRegistered)
    IN  [i \in 1..Len(kept) |-> get_region(kept[i])]

IsSidoRegion(r) == r.level = SIDO

get_siblings(code) ==
    LET parent_code == get_parent_code(code)
    IN  IF Truthy(parent_code) THEN navigate_down(parent_code)
        ELSE IF _get_level(code) = SIDO
             THEN SelectSeq(DictValues(_regions), IsSidoRegion)
        ELSE <<>>

\* BreadcrumbLoop appending instead of inserting at the front
RECURSIVE BreadcrumbLoop_Append(_, _, _)
BreadcrumbLoop_Append(current, breadcrumb, fuel) ==
    IF current = NoneRegion THEN breadcrumb
    ELSE IF fuel = 0 THEN <<"diverges">>
    ELSE LET inserted == breadcrumb \o <<current>>
         IN  IF Truthy(current.parent_code)
             THEN BreadcrumbLoop_Append(get_region(current.parent_code), inserted, fuel - 1)
             ELSE inserted

\* build_breadcrumb's loop, from `current` with `breadcrumb` built so far.  The
\* loop runs once per region of the parent_code chain; `fuel` stops the
\* evaluation of a chain longer than the number of registered regions, which is
\* a chain that never ends.
RECURSIVE BreadcrumbLoop(_, _, _)
BreadcrumbLoop(current, breadcrumb, fuel) ==
    IF current = NoneRegion THEN breadcrumb
    ELSE IF fuel = 0 THEN <<"diverges">>
    ELSE LET inserted == <<current>> \o breadcrumb
         IN  IF Truthy(current.parent_code)
             THEN BreadcrumbLoop(get_region(current.parent_code), inserted, fuel - 1)
             ELSE inserted

build_breadcrumb(code) == BreadcrumbLoop(get_region(code), <<>>, Len(_regions) + 1)

---------------------------------------------------------------------------
(* Numbers.  A Python float is a fixed-point integer: a percentage, ratio or *)
(* growth rate counts hundredths (PCT units per 1.0), an urgency score       *)
(* counts 1/10000 (SCORE units per 1.0).  A quotient is rounded down to the  *)
(* unit.  TLC's integers are 32 bits wide, so quotients are computed digit   *)
(* by digit.                                                                 *)

PCT == 100
SCORE == 10000

Abs(x) == IF x < 0 THEN -x ELSE x

RECURSIVE Pow10(_)
Pow10(k) == IF k = 0 THEN 1 ELSE 10 * Pow10(k - 1)

\* floor(a * 10^k / c) for c > 0, by long division
RECURSIVE LongDiv(_, _, _)
LongDiv(a, c, k) ==
    IF k = 0 THEN a \div c
    ELSE LET q == a \div c
             r == a % c
         IN  q * Pow10(k) + LongDiv(r * 10, c, k - 1)

\* floor(a / c * 10^k) for c # 0
DivScaled(a, c, k) == IF c < 0 THEN LongDiv(-a, -c, k) ELSE LongDiv(a, c, k)

\* whether r^n <= q, for r, q >= 0, without leaving 32 bits
RECURSIVE PowLeq(_, _, _)
PowLeq(r, n, q) ==
    IF n = 0 THEN 1 <= q
    ELSE IF r = 0 THEN TRUE
    ELSE PowLeq(r, n - 1, q \div r)

\* floor(q^(1/n)) for 0 <= q, searched in lo..hi
RECURSIVE IRootIn(_, _, _, _)
IRootIn(q, n, lo, hi) ==
    IF lo >= hi THEN lo
    ELSE LET mid == lo + ((hi - lo + 1) \div 2)
         IN  IF PowLeq(mid, n, q) THEN IRootIn(q, n, mid, hi)
             ELSE IRootIn(q, n, lo, mid - 1)
IRoot(q, n) == IRootIn(q, n, 0, q)

\* decimal digits a root of odd order n is computed to
RootDigits(n) ==
    CASE n = 3 -> 2 [] n \in 5..7 -> 1 [] OTHER -> 0

\* x ** (1 / n) for x >= 0, x and the result in units of 10^-4: an even order
\* by a square root first, an odd order to RootDigits(n) digits
RECURSIVE Root(_, _)
Root(x, n) ==
    IF n = 1 THEN x
    ELSE IF n % 2 = 0 THEN Root(IRoot(x * Pow10(4), 2), n \div 2)
    ELSE LET d == RootDigits(n)
             q == IF d * n >= 4 THEN x * Pow10(d * n - 4) ELSE x \div Pow10(4 - d * n)
         IN  IRoot(q, n) * Pow10(4 - d)

\* ((end / start) ** (1 / years) - 1) * 100, in PCT units; a negative base
\* under a fractional exponent gives a complex number
GrowthRate(start_value, end_value, years) ==
    IF ((end_value < 0 /\ start_value > 0) \/ (end_value > 0 /\ start_value < 0))
       /\ years > 1
    THEN [complex |-> TRUE, v |-> 0]
    ELSE [complex |-> FALSE,
          v |-> Root(DivScaled(end_value, start_value, 4), years) - Pow10(4)]

\* f"{x:.1f}": x in PCT units, rounded to tenths
Format1f(x) == (x + 5) \div 10

\* sorted(l)
RECURSIVE Sorted(_)
Sorted(l) ==
    IF l = <<>> THEN <<>>
    ELSE LET m == CHOOSE i \in 1..Len(l) : \A j \in 1..Len(l) : l[i] <= l[j]
         IN  <<l[m]>> \o Sorted(SubSeq(l, 1, m - 1) \o SubSeq(l, m + 1, Len(l)))

---------------------------------------------------------------------------
(* processor.py: WelfareCluster, DemographicData *)

CHILDREN_YOUTH == "children_youth"
PRODUCTIVE == "productive"
YOUNG_OLD == "young_old"
OLD_OLD == "old_old"
\* the members of WelfareCluster in definition order
WelfareCluster == <<CHILDREN_YOUTH, PRODUCTIVE, YOUNG_OLD, OLD_OLD>>

\* DemographicData(...) with the fields the call does not give at their defaults
DemographicData(region_code, region_name, year, total_population, children_youth, productive, young_old, old_old) ==
    [region_code |-> region_code, region_name |-> region_name, year |-> year,
     total_population |-> total_population,
     male_population |-> 0, female_population |-> 0,
     children_youth |-> children_youth, productive |-> productive,
     young_old |-> young_old, old_old |-> old_old,
     male_by_cluster |-> <<>>, female_by_cluster |-> <<>>,
     age_distribution |-> <<>>]

elderly_total(d) == d.young_old + d.old_old
aging_ratio(d) ==
    IF d.total_population = 0 THEN 0
    ELSE DivScaled(elderly_total(d), d.total_population, 4)
old_old_ratio(d) ==
    IF elderly_total(d) = 0 THEN 0
    ELSE DivScaled(d.old_old, elderly_total(d), 4)
dependency_ratio(d) ==
    IF d.productive = 0 THEN 0
    ELSE DivScaled(d.children_youth + elderly_total(d), d.productive, 4)

---------------------------------------------------------------------------
(* processor.py: DemographicProcessor.  A label is a sequence of characters; *)
(* a Hangul syllable is written as its romanisation:                        *)
(*   "gye" = 계, "hap" = 합, "so" = 소, "chong" = 총, "jeon" = 전,          *)
(*   "che" = 체, "guk" = 국, "se" = 세, "i" "sang" = 이상                   *)

\* NaN in a column of labels, str(value), value.strip()
NaN == <<"NaN">>
Str(value) == IF value = NaN THEN <<"n", "a", "n">> ELSE value
IsSpace(c) == c = " "
RECURSIVE LStrip(_)
LStrip(s) == IF s # <<>> /\ IsSpace(s[1]) THEN LStrip(Tail(s)) ELSE s
RECURSIVE RStrip(_)
RStrip(s) ==
    IF s # <<>> /\ IsSpace(s[Len(s)]) THEN RStrip(SubSeq(s, 1, Len(s) - 1)) ELSE s
Strip(s) == RStrip(LStrip(s))
\* pattern in s, for two str
Contains(pattern, s) ==
    \E i \in 1..(Len(s) - Len(pattern) + 1) :
        SubSeq(s, i, i + Len(pattern) - 1) = pattern
RECURSIVE Pow2(_)
Pow2(k) == IF k = 0 THEN 1 ELSE 2 * Pow2(k - 1)
\* 2 ** k mod n
RECURSIVE Pow2Mod(_, _)
Pow2Mod(k, n) == IF k = 0 THEN 1 % n ELSE (2 * Pow2Mod(k - 1, n)) % n

\* the bits a double keeps of a number
MANT_DIG == 53

\* int(pop * (overlap_range / total_range)), the quotient and the product
\* each rounded to the nearest double, 0 < overlap_range <= total_range.
\* When total_range does not divide pop * overlap_range the rounding is far
\* too small to reach the next integer.  When it does, the exact product is
\* the integer q, and the result is q - 1 if the weight was rounded down (its
\* remainder R is under half) by so much that the product rounds below q:
\* the product then is q - pop * R / (total_range * 2 ** (MANT_DIG - 1 + a))
\* with 2 ** -a <= weight < 2 ** (1 - a), the doubles below q lie
\* 2 ** (E + 1 - MANT_DIG) apart with 2 ** E < q <= 2 ** (E + 1), and the
\* product is nearer to the double below q when
\* 2 * pop * R > total_range * 2 ** (a + E).
IntOfProduct(pop, overlap_range, total_range) ==
    LET p == Abs(pop)
        q == (p * overlap_range) \div total_range
        a == CHOOSE k \in 0..30 :
                /\ overlap_range * Pow2(k) >= total_range
                /\ k > 0 => overlap_range * Pow2(k - 1) < total_range
        R == (overlap_range * Pow2Mod(MANT_DIG - 1 + a, total_range)) % total_range
        E == CHOOSE k \in (-1)..29 :
                /\ Pow2(k + 1) >= q
                /\ k >= 0 => Pow2(k) < q
        short == /\ p > 0
                 /\ (p * overlap_range) % total_range = 0
                 /\ R # 0 /\ 2 * R < total_range
                 /\ 2 * p * R > total_range * Pow2(a + E)
        magnitude == IF short THEN q - 1 ELSE q
    IN  IF pop < 0 THEN -magnitude ELSE magnitude

EXCLUDE_PATTERNS ==
    << <<"gye">>, <<"hap", "gye">>, <<"so", "gye">>, <<"chong", "gye">>,
       <<"jeon", "che">>, <<"T", "o", "t", "a", "l">>, <<"t", "o", "t", "a", "l">> >>

\* DemographicProcessor._is_total_entry
_is_total_entry(value) ==
    IF value = NaN THEN FALSE
    ELSE LET value_str == Strip(Str(value))
         IN  \E i \in 1..Len(EXCLUDE_PATTERNS) : Contains(EXCLUDE_PATTERNS[i], value_str)

IsRangeSep(c) == c \in {"~", "-"}
\* the shapes of AGE_PATTERNS, for what follows the leading (\d+); each gives
\* the run of digits of the second group, or <<>> where it has none
\*   ^(\d+)세$
AgeSingle(rest) == rest = <<"se">>
\*   ^(\d+)[~-](\d+)세?$   and   ^(\d+)[~-](\d+)$
AgeRange(rest, se_allowed) ==
    /\ rest # <<>> /\ IsRangeSep(rest[1])
    /\ LET k == DigitRun(Tail(rest))
           after == SubSeq(rest, k + 2, Len(rest))
       IN  k >= 1 /\ (after = <<>> \/ (se_allowed /\ after = <<"se">>))
\*   ^(\d+)세[~-](\d+)세$
AgeRangeSe(rest) ==
    /\ Len(rest) >= 2 /\ rest[1] = "se" /\ IsRangeSep(rest[2])
    /\ LET k == DigitRun(SubSeq(rest, 3, Len(rest)))
       IN  k >= 1 /\ SubSeq(rest, k + 3, Len(rest)) = <<"se">>
\*   ^(\d+)세?\s*이상$
AgeOpen(rest) ==
    LET r1 == IF rest # <<>> /\ rest[1] = "se" THEN Tail(rest) ELSE rest
    IN  LStrip(r1) = <<"i", "sang">>
\*   ^(\d+)\+$
AgePlus(rest) == rest = <<"+">>

\* the age range None
NoRange == <<>>

\* DemographicProcessor._parse_age_group: <<min, max>> or NoRange
_parse_age_group(age_str0) ==
    LET age_str == Strip(Str(age_str0))
        k == DigitRun(age_str)
        first == IntOf(SubSeq(age_str, 1, k))
        rest == SubSeq(age_str, k + 1, Len(age_str))
        second(from) == IntOf(SubSeq(rest, from, from + DigitRun(SubSeq(rest, from, Len(rest))) - 1))
    IN  IF k = 0 THEN NoRange
        ELSE IF AgeSingle(rest) THEN <<first, first>>
        ELSE IF AgeRange(rest, TRUE) THEN <<first, second(2)>>
        ELSE IF AgeRangeSe(rest) THEN <<first, second(3)>>
        ELSE IF AgeRange(rest, FALSE) THEN <<first, second(2)>>
        ELSE IF AgeOpen(rest) THEN <<first, 120>>
        ELSE IF AgePlus(rest) THEN <<first, 120>>
        ELSE NoRange

\* hierarchy.py, KIKcdHierarchy.TOTAL_PATTERNS: each regular expression as the
\* shape re.match tests on a str without line breaks
\*   .*계$   ^계$   .*소계.*   .*합계.*   전국
TOTAL_PATTERNS ==
    << [shape |-> "endswith", text |-> <<"gye">>],
       [shape |-> "equals", text |-> <<"gye">>],
       [shape |-> "contains", text |-> <<"so", "gye">>],
       [shape |-> "contains", text |-> <<"hap", "gye">>],
       [shape |-> "startswith", text |-> <<"jeon", "guk">>] >>

\* re.match(pattern, name)
ReMatch(pattern, name) ==
    LET n == Len(pattern.text)
    IN  CASE pattern.shape = "endswith" ->
                Len(name) >= n /\ SubSeq(name, Len(name) - n + 1, Len(name)) = pattern.text
          [] pattern.shape = "equals" -> name = pattern.text
          [] pattern.shape = "contains" -> Contains(pattern.text, name)
          [] pattern.shape = "startswith" ->
                Len(name) >= n /\ SubSeq(name, 1, n) = pattern.text

\* KIKcdHierarchy.is_total_entry
is_total_entry(name) ==
    \E i \in 1..Len(TOTAL_PATTERNS) : ReMatch(TOTAL_PATTERNS[i], name)

\* a variant in which the productive ages run to 65
age_range_ProductiveTo65(cluster) ==
    CASE cluster = CHILDREN_YOUTH -> <<0, 18>>
      [] cluster = PRODUCTIVE -> <<19, 65>>
      [] cluster = YOUNG_OLD -> <<65, 74>>
      [] cluster = OLD_OLD -> <<75, 120>>

\* WelfareCluster.age_range
age_range(cluster) ==
    CASE cluster = CHILDREN_YOUTH -> <<0, 18>>
      [] cluster = PRODUCTIVE -> <<19, 64>>
      [] cluster = YOUNG_OLD -> <<65, 74>>
      [] cluster = OLD_OLD -> <<75, 120>>

\* a variant that counts an overlap without its last year
_classify_to_cluster_OverlapShort(min_age, max_age) ==
    LET overlap_min(c) == Max(min_age, age_range(c)[1])
        overlap_max(c) == Min(max_age, age_range(c)[2])
        overlaps(c) == overlap_min(c) <= overlap_max(c)
        hit == SelectSeq(WelfareCluster, overlaps)
    IN  [i \in 1..Len(hit) |->
            [cluster |-> hit[i],
             overlap_range |-> overlap_max(hit[i]) - overlap_min(hit[i]),
             total_range |-> max_age - min_age + 1]]

\* DemographicProcessor._classify_to_cluster: the clusters an age range
\* overlaps, each with its proportion overlap_range / total_range
_classify_to_cluster(min_age, max_age) ==
    LET overlap_min(c) == Max(min_age, age_range(c)[1])
        overlap_max(c) == Min(max_age, age_range(c)[2])
        overlaps(c) == overlap_min(c) <= overlap_max(c)
        hit == SelectSeq(WelfareCluster, overlaps)
    IN  [i \in 1..Len(hit) |->
            [cluster |-> hit[i],
             overlap_range |-> overlap_max(hit[i]) - overlap_min(hit[i]) + 1,
             total_range |-> max_age - min_age + 1]]

\* a DataFrame: its rows in order, each with the columns region, region_code,
\* year, age_group, gender and population, and whether it has a gender column.
\* A population cell is <<n>>, or <<>> for NaN.
Row(region, region_code, year, age_group, gender, population) ==
    [region |-> region, region_code |-> region_code, year |-> year,
     age_group |-> age_group, gender |-> gender, population |-> population]

\* {c.value: 0 for c in WelfareCluster}
ZeroByCluster == [i \in 1..Len(WelfareCluster) |-> [k |-> WelfareCluster[i], v |-> 0]]

MALE_LABELS == <<"nam", "male", "Male", "M">>
FEMALE_LABELS == <<"yeo", "female", "Female", "F">>

\* lines 278-296: one (cluster, weight) of one row
AddWeighted(demo, cw, gender, pop) ==
    LET weighted_pop == IntOfProduct(pop, cw.overlap_range, cw.total_range)
    IN  IF InList(gender, MALE_LABELS)
        THEN [demo EXCEPT
                !.male_by_cluster =
                    DictSet(@, cw.cluster, DictGet(@, cw.cluster, 0) + weighted_pop),
                !.male_population = @ + weighted_pop]
        ELSE IF InList(gender, FEMALE_LABELS)
        THEN [demo EXCEPT
                !.female_by_cluster =
                    DictSet(@, cw.cluster, DictGet(@, cw.cluster, 0) + weighted_pop),
                !.female_population = @ + weighted_pop]
        ELSE [demo EXCEPT ![cw.cluster] = @ + weighted_pop,
                          !.total_population = @ + weighted_pop]

RECURSIVE AddClusters(_, _, _, _)
AddClusters(demo, cluster_weights, gender, pop) ==
    IF cluster_weights = <<>> THEN demo
    ELSE AddClusters(AddWeighted(demo, Head(cluster_weights), gender, pop),
                     Tail(cluster_weights), gender, pop)

\* lines 259-296: one row of a group
ProcessRow(demo, row, gender_in_row) ==
    LET age_str == Str(row.age_group)
        gender == IF gender_in_row THEN row.gender ELSE "gye"
        pop == IF row.population # <<>> THEN row.population[1] ELSE 0
        range == _parse_age_group(age_str)
    IN  IF range = NoRange THEN demo
        ELSE AddClusters(
                [demo EXCEPT !.age_distribution =
                    DictSet(@, age_str, DictGet(@, age_str, 0) + pop)],
                _classify_to_cluster(range[1], range[2]), gender, pop)

RECURSIVE ProcessRows(_, _, _)
ProcessRows(demo, rows, gender_in_row) ==
    IF rows = <<>> THEN demo
    ELSE ProcessRows(ProcessRow(demo, Head(rows), gender_in_row), Tail(rows),
                     gender_in_row)

\* lines 298-311: totals from the gender-specific counts
GenderTotals(demo) ==
    IF demo.total_population = 0
       /\ (demo.male_population > 0 \/ demo.female_population > 0)
    THEN LET cluster_total(c) ==
                 DictGet(demo.male_by_cluster, c, 0) + DictGet(demo.female_by_cluster, c, 0)
         IN  [demo EXCEPT
                !.total_population = demo.male_population + demo.female_population,
                !.children_youth = cluster_total(CHILDREN_YOUTH),
                !.productive = cluster_total(PRODUCTIVE),
                !.young_old = cluster_total(YOUNG_OLD),
                !.old_old = cluster_total(OLD_OLD)]
    ELSE demo

\* the order of str made of digits, and of the (region_code, year) group keys
RECURSIVE StrLess(_, _)
StrLess(a, b) ==
    IF b = <<>> THEN FALSE
    ELSE IF a = <<>> THEN TRUE
    ELSE IF a[1] # b[1] THEN DigitValue(a[1]) < DigitValue(b[1])
    ELSE StrLess(Tail(a), Tail(b))
KeyLess(a, b) == StrLess(a[1], b[1]) \/ (a[1] = b[1] /\ a[2] < b[2])
RECURSIVE SortedKeys(_)
SortedKeys(S) ==
    IF S = {} THEN <<>>
    ELSE LET m == CHOOSE a \in S : \A b \in S \ {a} : KeyLess(a, b)
         IN  <<m>> \o SortedKeys(S \ {m})

\* lines 245-316: the groups in key order, each stored under its padded code
RECURSIVE StoreGroups(_, _, _, _)
StoreGroups(results, keys, df_filtered, gender_in_row) ==
    IF keys = <<>> THEN results
    ELSE LET key == Head(keys)
             group == SelectSeq(df_filtered,
                          LAMBDA r : r.region_code = key[1] /\ r.year = key[2])
             region_code == Slice(LJust(key[1], 10, "0"), 0, 10)
             region_name == group[1].region
             demo == GenderTotals(
                        ProcessRows(
                            [DemographicData(region_code, region_name, key[2], 0, 0, 0, 0, 0)
                                EXCEPT !.male_by_cluster = ZeroByCluster,
                                       !.female_by_cluster = ZeroByCluster],
                            group, gender_in_row))
         IN  StoreGroups(
                 DictSet(results, region_code,
                         DictSet(DictGet(results, region_code, <<>>), key[2], demo)),
                 Tail(keys), df_filtered, gender_in_row)

\* DemographicProcessor.process_kosis_dataframe of a processor with these
\* analysis_years: a dict from region code to a dict from year to snapshot
process_kosis_dataframe(analysis_years, df) ==
    LET kept(r) == ~_is_total_entry(r.region) /\ ~_is_total_entry(r.age_group)
        in_years(r) == InList(r.year, analysis_years)
        df_filtered == SelectSeq(SelectSeq(df.rows, kept), in_years)
        keys == SortedKeys({<<df_filtered[i].region_code, df_filtered[i].year>> :
                                i \in 1..Len(df_filtered)})
    IN  StoreGroups(<<>>, keys, df_filtered, df.gender_col)

\* the x_by_cluster dict with the child's counts added, lines 398-400
RECURSIVE AddByCluster(_, _, _)
AddByCluster(by_cluster, child_by_cluster, clusters) ==
    IF clusters = <<>> THEN by_cluster
    ELSE AddByCluster(
            DictSet(by_cluster, Head(clusters),
                    DictGet(by_cluster, Head(clusters), 0)
                    + DictGet(child_by_cluster, Head(clusters), 0)),
            child_by_cluster, Tail(clusters))

\* a variant that adds the child's male count to the female population
AddChild_FemaleFromMale(demo, child) ==
    [demo EXCEPT
        !.total_population = @ + child.total_population,
        !.male_population = @ + child.male_population,
        !.female_population = @ + child.male_population,
        !.children_youth = @ + child.children_youth,
        !.productive = @ + child.productive,
        !.young_old = @ + child.young_old,
        !.old_old = @ + child.old_old,
        !.male_by_cluster = AddByCluster(@, child.male_by_cluster, WelfareCluster),
        !.female_by_cluster = AddByCluster(@, child.female_by_cluster, WelfareCluster)]

\* aggregate_to_parent, lines 388-400: one child that has the year
AddChild(demo, child) ==
    [demo EXCEPT
        !.total_population = @ + child.total_population,
        !.male_population = @ + child.male_population,
        !.female_population = @ + child.female_population,
        !.children_youth = @ + child.children_youth,
        !.productive = @ + child.productive,
        !.young_old = @ + child.young_old,
        !.old_old = @ + child.old_old,
        !.male_by_cluster = AddByCluster(@, child.male_by_cluster, WelfareCluster),
        !.female_by_cluster = AddByCluster(@, child.female_by_cluster, WelfareCluster)]

\* lines 386-400: the loop over the children; a child_data is a function from
\* years to snapshots
RECURSIVE AddChildren(_, _, _)
AddChildren(demo, children_data, year) ==
    IF children_data = <<>> THEN demo
    ELSE AddChildren(
            IF year \in DOMAIN Head(children_data)
            THEN AddChild(demo, Head(children_data)[year]) ELSE demo,
            Tail(children_data), year)

\* lines 377-402: the loop over the years
RECURSIVE AggregateYears(_, _, _, _, _)
AggregateYears(aggregated, years, children_data, parent_code, parent_name) ==
    IF years = <<>> THEN aggregated
    ELSE LET year == Head(years)
             demo == [DemographicData(parent_code, parent_name, year, 0, 0, 0, 0, 0)
                        EXCEPT !.male_by_cluster = ZeroByCluster,
                               !.female_by_cluster = ZeroByCluster]
         IN  AggregateYears(
                DictSet(aggregated, year, AddChildren(demo, children_data, year)),
                Tail(years), children_data, parent_code, parent_name)

\* DemographicProcessor.aggregate_to_parent of a processor with these
\* analysis_years: a dict from year to snapshot
aggregate_to_parent(analysis_years, children_data, parent_code, parent_name) ==
    AggregateYears(<<>>, analysis_years, children_data, parent_code, parent_name)

---------------------------------------------------------------------------
(* analyzer.py: TrendMetrics, TrendAnalyzer *)

VELOCITY_THRESHOLDS == [rapid |-> 5 * PCT, moderate |-> 2 * PCT, stable |-> -2 * PCT]

\* URGENCY_WEIGHTS, in hundredths
\* weights that sum to 1.1
URGENCY_WEIGHTS_SumAboveOne ==
    [aging_velocity |-> 35, old_old_ratio |-> 25, absolute_elderly |-> 15,
     dependency_ratio |-> 15, trend_acceleration |-> 10, youth_decline |-> 10]

\* the weights in hundredths
URGENCY_WEIGHTS ==
    [aging_velocity |-> 25, old_old_ratio |-> 25, absolute_elderly |-> 15,
     dependency_ratio |-> 15, trend_acceleration |-> 10, youth_decline |-> 10]

\* the NATIONAL_REFERENCE dict of the class body: 19.2, 42.5, 4.2, 45.0
NATIONAL_REFERENCE_0 ==
    [aging_ratio |-> 1920, old_old_ratio |-> 4250, aging_velocity |-> 420,
     dependency_ratio |-> 4500]

\* TrendMetrics(region_code, region_name, start_year, end_year); complex_fields
\* names the fields that hold a complex number
TrendMetrics(region_code, region_name, start_year, end_year) ==
    [region_code |-> region_code, region_name |-> region_name,
     start_year |-> start_year, end_year |-> end_year,
     total_change_absolute |-> 0, total_change_percent |-> 0,
     aging_velocity |-> 0, aging_velocity_trend |-> "STABLE",
     old_old_velocity |-> 0, old_old_acceleration |-> 0,
     youth_velocity |-> 0, dependency_change |-> 0,
     yearly_aging_ratios |-> <<>>, yearly_populations |-> <<>>,
     yearly_elderly |-> <<>>,
     urgency_level |-> "MODERATE", urgency_score |-> 0, urgency_factors |-> <<>>,
     complex_fields |-> {}]

\* raise TypeError: an ordering comparison of a complex number
TypeError == [raised |-> "TypeError"]

calculate_cagr(start_value, end_value, years) ==
    IF start_value <= 0 \/ years <= 0 THEN [complex |-> FALSE, v |-> 0]
    ELSE GrowthRate(start_value, end_value, years)

\* raise OverflowError: "integer division result too large for a float"
OverflowError == [raised |-> "OverflowError"]

\* 10 ** HugeExp is an int beyond the range of a float (about 1.8 * 10 ** 308)
HugeExp == 400

\* calculate_cagr with the int end_value * 10 ** end_exp as its end_value,
\* end_exp being 0 or at least HugeExp: the guard comes first, then the true
\* division end_value / start_value of two ints, which raises OverflowError
\* when the quotient does not fit a float
calculate_cagr_int(start_value, end_value, end_exp, years) ==
    IF start_value <= 0 \/ years <= 0 THEN [complex |-> FALSE, v |-> 0]
    ELSE IF end_exp >= HugeExp /\ end_value # 0 THEN OverflowError
    ELSE calculate_cagr(start_value, end_value, years)

\* classify_trend with every bound inclusive
classify_trend_InclusiveBounds(velocity) ==
    IF velocity >= VELOCITY_THRESHOLDS.rapid THEN "RAPID_INCREASE"
    ELSE IF velocity >= VELOCITY_THRESHOLDS.moderate THEN "MODERATE_INCREASE"
    ELSE IF velocity >= VELOCITY_THRESHOLDS.stable THEN "STABLE"
    ELSE IF velocity >= -VELOCITY_THRESHOLDS.rapid THEN "MODERATE_DECREASE"
    ELSE "RAPID_DECREASE"

classify_trend(velocity) ==
    IF velocity > VELOCITY_THRESHOLDS.rapid THEN "RAPID_INCREASE"
    ELSE IF velocity > VELOCITY_THRESHOLDS.moderate THEN "MODERATE_INCREASE"
    ELSE IF velocity > VELOCITY_THRESHOLDS.stable THEN "STABLE"
    ELSE IF velocity > -VELOCITY_THRESHOLDS.rapid THEN "MODERATE_DECREASE"
    ELSE "RAPID_DECREASE"

_classify_urgency(score) ==
    IF score >= 80 * SCORE THEN "CRITICAL"
    ELSE IF score >= 60 * SCORE THEN "HIGH"
    ELSE IF score >= 40 * SCORE THEN "ELEVATED"
    ELSE IF score >= 20 * SCORE THEN "MODERATE"
    ELSE "LOW"

\* the sub-score of the absolute elderly population (lines 296-297)
ElderlyScore(current_data) ==
    Min(25 * PCT, DivScaled(elderly_total(current_data), 1000 * 10, 2))

\* component * weight * 4, in SCORE units
Weighted(component, weight) == component * weight * 4

\* the velocity component taken from the size of the velocity, as the youth
\* component is
VelocityScore_Abs(aging_velocity) == Min(25 * PCT, Abs(aging_velocity) * 5)

\* line 284: min(25, max(0, metrics.aging_velocity * 5))
VelocityScore(aging_velocity) == Min(25 * PCT, Max(0, aging_velocity * 5))

\* the six sub-scores of _calculate_urgency, in PCT units, under the names of
\* their weights
SubScores(metrics, current_data) ==
    [aging_velocity |-> VelocityScore(metrics.aging_velocity),
     old_old_ratio |->
         Min(25 * PCT, Max(0, (old_old_ratio(current_data) - 30 * PCT) * 2)),
     absolute_elderly |-> ElderlyScore(current_data),
     dependency_ratio |->
         Min(25 * PCT, Max(0, (dependency_ratio(current_data) - 40 * PCT) \div 2)),
     trend_acceleration |->
         IF metrics.old_old_acceleration > 0
         THEN Min(25 * PCT, metrics.old_old_acceleration * 5) ELSE 0,
     youth_decline |->
         IF metrics.youth_velocity < 0
         THEN Min(25 * PCT, Abs(metrics.youth_velocity) * 5) ELSE 0]

\* score as it stands before the return: each sub-score times its weight times
\* 4, added up in the order of the code
RawScore(scores) ==
    Weighted(scores.aging_velocity, URGENCY_WEIGHTS.aging_velocity)
    + Weighted(scores.old_old_ratio, URGENCY_WEIGHTS.old_old_ratio)
    + Weighted(scores.absolute_elderly, URGENCY_WEIGHTS.absolute_elderly)
    + Weighted(scores.dependency_ratio, URGENCY_WEIGHTS.dependency_ratio)
    + Weighted(scores.trend_acceleration, URGENCY_WEIGHTS.trend_acceleration)
    + Weighted(scores.youth_decline, URGENCY_WEIGHTS.youth_decline)

\* _calculate_urgency: (score, factors), given the reference dict
_calculate_urgency(ref, metrics, current_data) ==
    LET f1 == IF metrics.aging_velocity > ref.aging_velocity
              THEN <<[rule |-> "aging_velocity", shown |-> Format1f(metrics.aging_velocity)]>>
              ELSE <<>>
        f2 == IF old_old_ratio(current_data) > 50 * PCT
              THEN <<[rule |-> "old_old_ratio", shown |-> Format1f(old_old_ratio(current_data))]>>
              ELSE <<>>
        f3 == IF elderly_total(current_data) > 50000
              THEN <<[rule |-> "absolute_elderly", shown |-> elderly_total(current_data)]>>
              ELSE <<>>
        f4 == IF dependency_ratio(current_data) > 60 * PCT
              THEN <<[rule |-> "dependency_ratio", shown |-> Format1f(dependency_ratio(current_data))]>>
              ELSE <<>>
        f5 == IF metrics.old_old_acceleration > 2 * PCT
              THEN <<[rule |-> "trend_acceleration", shown |-> Format1f(metrics.old_old_acceleration)]>>
              ELSE <<>>
        f6 == IF metrics.youth_velocity < -3 * PCT
              THEN <<[rule |-> "youth_decline", shown |-> Format1f(metrics.youth_velocity)]>>
              ELSE <<>>
        score == RawScore(SubScores(metrics, current_data))
    IN  [score |-> Min(100 * SCORE, score),
         factors |-> f1 \o f2 \o f3 \o f4 \o f5 \o f6]

\* analyze_region of an analyzer with these analysis_years, reading the
\* reference dict `ref`; region_data is a function from years to snapshots
\* the keys of a dict that is assigned at each of `years` in turn: a year
\* that comes again keeps its place
RECURSIVE YearKeys(_)
YearKeys(years) ==
    IF years = <<>> THEN <<>>
    ELSE LET front == SubSeq(years, 1, Len(years) - 1)
             year == years[Len(years)]
         IN  IF year \in SeqToSet(front) THEN YearKeys(front)
             ELSE Append(YearKeys(front), year)

analyze_region(analysis_years, ref, region_data) ==
    LET available_years ==
            Sorted(SelectSeq(analysis_years, LAMBDA y : y \in DOMAIN region_data))
        n == Len(available_years)
    IN  IF n < 2
        THEN IF n > 0
             THEN LET demo == region_data[available_years[1]]
                  IN  TrendMetrics(demo.region_code, demo.region_name,
                                   available_years[1], available_years[1])
             ELSE TrendMetrics("", "", 0, 0)
        ELSE
        LET first_year == available_years[1]
            last_year == available_years[n]
            years_span == last_year - first_year
            first_data == region_data[first_year]
            last_data == region_data[last_year]
            aging == calculate_cagr(elderly_total(first_data),
                                    elderly_total(last_data), years_span)
            oo == calculate_cagr(first_data.old_old, last_data.old_old, years_span)
            mid_year == available_years[(n \div 2) + 1]
            mid_data == region_data[mid_year]
            first_half == IF mid_year > first_year
                          THEN calculate_cagr(first_data.old_old, mid_data.old_old,
                                              mid_year - first_year)
                          ELSE [complex |-> FALSE, v |-> 0]
            second_half == IF last_year > mid_year
                           THEN calculate_cagr(mid_data.old_old, last_data.old_old,
                                               last_year - mid_year)
                           ELSE [complex |-> FALSE, v |-> 0]
            accel_complex == n >= 3 /\ (first_half.complex \/ second_half.complex)
            youth == calculate_cagr(first_data.children_youth,
                                    last_data.children_youth, years_span)
            m0 == TrendMetrics(first_data.region_code, first_data.region_name,
                               first_year, last_year)
            keys == YearKeys(available_years)
            m1 == [m0 EXCEPT
                     !.yearly_populations =
                         [i \in 1..Len(keys) |-> [k |-> keys[i],
                                          v |-> region_data[keys[i]].total_population]],
                     !.yearly_elderly =
                         [i \in 1..Len(keys) |-> [k |-> keys[i],
                                          v |-> elderly_total(region_data[keys[i]])]],
                     !.yearly_aging_ratios =
                         [i \in 1..Len(keys) |-> [k |-> keys[i],
                                          v |-> aging_ratio(region_data[keys[i]])]],
                     !.total_change_absolute =
                         last_data.total_population - first_data.total_population,
                     !.total_change_percent =
                         IF first_data.total_population > 0
                         THEN DivScaled(last_data.total_population - first_data.total_population,
                                        first_data.total_population, 4)
                         ELSE 0,
                     !.aging_velocity = aging.v,
                     !.aging_velocity_trend = classify_trend(aging.v),
                     !.old_old_velocity = oo.v,
                     !.old_old_acceleration =
                         IF n >= 3 THEN second_half.v - first_half.v ELSE 0,
                     !.youth_velocity = youth.v,
                     !.dependency_change =
                         dependency_ratio(last_data) - dependency_ratio(first_data),
                     !.complex_fields =
                         IF oo.complex THEN {"old_old_velocity"} ELSE {}]
            u == _calculate_urgency(ref, m1, last_data)
        IN  IF aging.complex \/ accel_complex \/ youth.complex
            THEN TypeError
            ELSE [m1 EXCEPT !.urgency_score = u.score,
                            !.urgency_factors = u.factors,
                            !.urgency_level = _classify_urgency(u.score)]

ComparativeAnalysis(region_code, reference_type) ==
    [region_code |-> region_code, reference_type |-> reference_type,
     aging_ratio_diff |-> 0, aging_velocity_diff |-> 0, old_old_ratio_diff |-> 0,
     percentile_rank |-> 0, deviation_severity |-> "normal"]

\* compare_to_reference, reading the reference dict `ref`
compare_to_reference(ref, metrics, current_data, reference_type) ==
    LET a0 == ComparativeAnalysis(metrics.region_code, reference_type)
        a1 == IF reference_type = "national"
              THEN [a0 EXCEPT
                      !.aging_ratio_diff = aging_ratio(current_data) - ref.aging_ratio,
                      !.aging_velocity_diff = metrics.aging_velocity - ref.aging_velocity,
                      !.old_old_ratio_diff = old_old_ratio(current_data) - ref.old_old_ratio]
              ELSE a0
        total_deviation == Abs(a1.aging_ratio_diff) + Abs(a1.aging_velocity_diff)
                           + Abs(a1.old_old_ratio_diff)
    IN  [a1 EXCEPT !.deviation_severity =
            IF total_deviation > 15 * PCT THEN "severe"
            ELSE IF total_deviation > 8 * PCT THEN "elevated"
            ELSE "normal"]

\* set_national_reference: the reference dict it leaves, from `ref`, for an
\* analyzer with these start_year and end_year.  For national_data whose
\* elderly totals are not negative: a negative end total over a span of more
\* than a year would leave a complex aging_velocity in the dict.
SetReference(ref, start_year, end_year, national_data) ==
    LET r1 == IF end_year \in DOMAIN national_data
              THEN LET latest == national_data[end_year]
                   IN  [ref EXCEPT !.aging_ratio = aging_ratio(latest),
                                   !.old_old_ratio = old_old_ratio(latest),
                                   !.dependency_ratio = dependency_ratio(latest)]
              ELSE ref
    IN  IF start_year \in DOMAIN national_data /\ end_year \in DOMAIN national_data
        THEN LET start_elderly == elderly_total(national_data[start_year])
                 end_elderly == elderly_total(national_data[end_year])
                 years == end_year - start_year
             IN  IF start_elderly > 0 /\ years > 0
                 THEN [r1 EXCEPT !.aging_velocity =
                          GrowthRate(start_elderly, end_elderly, years).v]
                 ELSE r1
        ELSE r1

---------------------------------------------------------------------------
(* The hierarchy as a state machine: any sequence of add_region calls *)

\* at most MaxCalls add_region calls are made
MaxCalls == 2

\* code arguments: a short code ("11"), codes of every level, a code longer
\* than 10 characters, a tertiary code with a zero secondary segment, a
\* secondary code under an unregistered primary, and the national code
AddCodes ==
    { <<"1","1">>,
      <<"1","1","6","8","0","0","0","0","0","0">>,
      <<"1","1","6","8","0","1","0","1","0","0">>,
      <<"1","1","6","8","0","1","0","1","0","0","9">>,
      <<"1","1","0","0","0","1","0","1","0","0">>,
      <<"9","9","1","1">>,
      <<"0","0">> }
AddNames == {"Seoul", "Gangnam"}
\* (is_active, expired_date)
Date2015 == <<"2", "0", "1", "5", "-", "1", "2", "-", "3", "1">>
Date2021 == <<"2", "0", "2", "1", "-", "0", "6", "-", "3", "0">>
DateUnknown == <<"u", "n", "k", "n", "o", "w", "n">>
AddStatus ==
    {<<TRUE, NoneStr>>, <<FALSE, Date2015>>, <<FALSE, NoneStr>>, <<FALSE, Date2021>>,
     <<FALSE, DateUnknown>>}

\* the add_region calls made: every code under both names, active; and each
\* code once more as an inactive region
AddCalls ==
    LET c11 == <<"1", "1">>
        c1168 == <<"1", "1", "6", "8", "0", "0", "0", "0", "0", "0">>
        c11680101 == <<"1", "1", "6", "8", "0", "1", "0", "1", "0", "0">>
        c11680101x == <<"1", "1", "6", "8", "0", "1", "0", "1", "0", "0", "9">>
        c11000101 == <<"1", "1", "0", "0", "0", "1", "0", "1", "0", "0">>
        c9911 == <<"9", "9", "1", "1">>
        c00 == <<"0", "0">>
    IN  { <<c11, "Seoul", <<TRUE, NoneStr>> >>,
          <<c11, "Gangnam", <<TRUE, NoneStr>> >>,
          <<c1168, "Gangnam", <<TRUE, NoneStr>> >>,
          <<c1168, "Gangnam", <<FALSE, Date2015>> >>,
          <<c1168, "Seoul", <<FALSE, NoneStr>> >>,
          <<c11680101, "Gangnam", <<TRUE, NoneStr>> >>,
          <<c11680101, "Seoul", <<FALSE, Date2021>> >>,
          <<c11680101x, "Gangnam", <<TRUE, NoneStr>> >>,
          <<c11680101x, "Seoul", <<FALSE, Date2015>> >>,
          <<c11000101, "Gangnam", <<TRUE, NoneStr>> >>,
          <<c11000101, "Gangnam", <<FALSE, DateUnknown>> >>,
          <<c9911, "Gangnam", <<TRUE, NoneStr>> >>,
          <<c9911, "Seoul", <<FALSE, Date2015>> >>,
          <<c00, "Seoul", <<TRUE, NoneStr>> >>,
          <<c00, "Gangnam", <<FALSE, NoneStr>> >> }

HAddRegion ==
    /\ hcalls < MaxCalls
    /\ \E call \in AddCalls :
          /\ call[1] \in AddCodes /\ call[2] \in AddNames /\ call[3] \in AddStatus
          /\ add_region(call[1], call[2], call[3][1], call[3][2])
    /\ UNCHANGED <<cvars, avars, pvars, fvars>>

---------------------------------------------------------------------------
(* The pure code functions, applied to every code up to a length *)

\* codes of 0..MaxCodeLen characters are tried
MaxCodeLen == 11
CodeChars == {"0", "1"}
RECURSIVE SeqsUpTo(_, _)
SeqsUpTo(S, n) ==
    IF n = 0 THEN {<<>>}
    ELSE LET shorter == SeqsUpTo(S, n - 1)
         IN  shorter \cup {Append(s, c) : s \in {t \in shorter : Len(t) = n - 1}, c \in S}
CodeInputs == SeqsUpTo(CodeChars, MaxCodeLen)

CInit ==
    /\ ccode \in CodeInputs
    /\ cout = [op |-> "none"]

CParseCode ==
    /\ cout' = [op |-> "parse_code", ret |-> parse_code(ccode)]
    /\ UNCHANGED <<ccode, hvars, avars, pvars, fvars>>

CNormalizeCode ==
    /\ \E target_level \in AdminLevel :
          cout' = [op |-> "normalize_code", target_level |-> target_level,
                   ret |-> normalize_code(ccode, target_level)]
    /\ UNCHANGED <<ccode, hvars, avars, pvars, fvars>>

CGetParentCode ==
    /\ cout' = [op |-> "get_parent_code", ret |-> get_parent_code(ccode)]
    /\ UNCHANGED <<ccode, hvars, avars, pvars, fvars>>


---------------------------------------------------------------------------
(* The analyzers as a state machine: two TrendAnalyzer instances *)

\* at most MaxRefCalls set_national_reference calls are made
MaxRefCalls == 1
\* at most MaxQueries calls of analyze_region, compare_to_reference and
\* rank_regions are made
MaxQueries == 1

Analyzers == {"a1", "a2"}

\* the analysis_years argument of __init__; <<>> stands for None
YearsArgs == { <<>>, <<2023, 2021>>, <<2021>>, <<2021, 2021>> }
DefaultYears == <<2021, 2022, 2023, 2024, 2025>>

\* TrendAnalyzer.__init__
NewAnalyzer(analysis_years) ==
    LET ys == Sorted(IF analysis_years # <<>> THEN analysis_years ELSE DefaultYears)
    IN  [analysis_years |-> ys, start_year |-> ys[1], end_year |-> ys[Len(ys)],
         _national_data |-> NoneRegion]

Gangnam_gu == <<"1","1","6","8","0","0","0","0","0","0">>
Gangnam == "Gangnam"
\* snapshots of one region; A21 and A25 are the two snapshots of the spec's
\* scenario 9
A21 == DemographicData(Gangnam_gu, Gangnam, 2021, 100000, 18000, 70000, 8000, 4000)
A23 == DemographicData(Gangnam_gu, Gangnam, 2023, 99000, 17000, 67000, 9000, 4500)
A25 == DemographicData(Gangnam_gu, Gangnam, 2025, 98000, 16500, 65000, 9500, 6000)
\* a snapshot with nobody in it
Z21 == DemographicData(Gangnam_gu, Gangnam, 2021, 0, 0, 0, 0, 0)
\* snapshots with a negative cluster count
N23 == DemographicData(Gangnam_gu, Gangnam, 2023, 1000, 100, 600, -20000, 0)
N25 == DemographicData(Gangnam_gu, Gangnam, 2025, 1000, 100, 600, 300, -200)
\* a large and fast-ageing region
M21 == DemographicData(Gangnam_gu, Gangnam, 2021, 300000, 60000, 150000, 40000, 50000)
M23 == DemographicData(Gangnam_gu, Gangnam, 2023, 400000, 50000, 150000, 60000, 70000)
M25 == DemographicData(Gangnam_gu, Gangnam, 2025, 500000, 30000, 200000, 50000, 200000)

\* a region whose last snapshot puts every sub-score of the urgency at its cap
C25 == DemographicData(Gangnam_gu, Gangnam, 2025, 1000000, 100000, 300000, 100000, 500000)

\* region_data arguments: no year at all, a year outside every analysis window,
\* one year, two years, three years
RegionSeries ==
    { <<>>,
      (2020 :> A21),
      (2020 :> A21) @@ (2023 :> A23),
      (2021 :> A21) @@ (2025 :> A25),
      (2021 :> A21) @@ (2023 :> A23) @@ (2025 :> A25),
      (2021 :> Z21) @@ (2023 :> N23),
      (2021 :> A21) @@ (2023 :> A23) @@ (2025 :> N25),
      (2021 :> M21) @@ (2023 :> M23) @@ (2025 :> M25) }

\* national_data arguments
NationalSeries ==
    { (2021 :> A21) @@ (2023 :> A23) @@ (2025 :> A25),
      (2023 :> M23),
      (2021 :> Z21) @@ (2025 :> A25) }

\* the series compare_to_reference is called on
CompareSeries ==
    { (2021 :> A21) @@ (2025 :> A25),
      (2021 :> M21) @@ (2023 :> M23) @@ (2025 :> M25) }

AInit ==
    /\ NATIONAL_REFERENCE = NATIONAL_REFERENCE_0
    /\ \E ys \in YearsArgs :
          analyzers = ("a1" :> NewAnalyzer(<<>>)) @@ ("a2" :> NewAnalyzer(ys))
    /\ acall = [op |-> "none"]
    /\ arefs = 0
    /\ aqueries = 0

\* self.NATIONAL_REFERENCE as instance `self` reads it: the instance has no
\* attribute of that name, so the lookup ends at the class attribute
SelfReference(self) == NATIONAL_REFERENCE

ASetNationalReference ==
    /\ arefs < MaxRefCalls
    /\ \E self \in Analyzers, national_data \in NationalSeries :
          /\ analyzers' = [analyzers EXCEPT ![self]._national_data = national_data]
          /\ NATIONAL_REFERENCE' =
                SetReference(SelfReference(self), analyzers[self].start_year,
                             analyzers[self].end_year, national_data)
          /\ acall' = [op |-> "set_national_reference", self |-> self,
                       national_data |-> national_data]
    /\ arefs' = arefs + 1
    /\ UNCHANGED aqueries
    /\ UNCHANGED <<hvars, cvars, pvars, fvars>>

AAnalyzeRegion ==
    /\ aqueries < MaxQueries
    /\ \E self \in Analyzers, region_data \in RegionSeries :
          acall' = [op |-> "analyze_region", self |-> self,
                    region_data |-> region_data,
                    ret |-> analyze_region(analyzers[self].analysis_years,
                                           SelfReference(self), region_data)]
    /\ aqueries' = aqueries + 1
    /\ UNCHANGED <<NATIONAL_REFERENCE, analyzers, arefs, hvars, cvars, pvars, fvars>>

\* the last snapshot of a series within the analysis years
LatestData(analysis_years, region_data) ==
    LET ys == Sorted(SelectSeq(analysis_years, LAMBDA y : y \in DOMAIN region_data))
    IN  region_data[ys[Len(ys)]]

\* lines 382-384: results as the loop over all_data.items() appends to it
RECURSIVE RankResults(_, _, _)
RankResults(analysis_years, ref, all_data) ==
    IF all_data = <<>> THEN <<>>
    ELSE LET item == all_data[Len(all_data)]
         IN  Append(RankResults(analysis_years, ref, SubSeq(all_data, 1, Len(all_data) - 1)),
                    <<item.k, analyze_region(analysis_years, ref, item.v)>>)

\* the place of `result` in a list sorted so far, a result of equal key
\* being put before the ones already there
InsertRanked_BeforeTies(sorted, result, rank_by) ==
    LET before == SelectSeq(sorted, LAMBDA r : r[2][rank_by] > result[2][rank_by])
        after == SelectSeq(sorted, LAMBDA r : r[2][rank_by] <= result[2][rank_by])
    IN  before \o <<result>> \o after

\* the place of `result` in a list sorted so far: list.sort is stable, also
\* with reverse=True, so a result of equal key stays behind the ones already
\* there
InsertRanked(sorted, result, rank_by) ==
    LET before == SelectSeq(sorted, LAMBDA r : r[2][rank_by] >= result[2][rank_by])
        after == SelectSeq(sorted, LAMBDA r : r[2][rank_by] < result[2][rank_by])
    IN  before \o <<result>> \o after

\* results.sort(key=lambda x: x[1].<rank_by>, reverse=True)
RECURSIVE SortRanked(_, _)
SortRanked(results, rank_by) ==
    IF results = <<>> THEN <<>>
    ELSE InsertRanked(SortRanked(SubSeq(results, 1, Len(results) - 1), rank_by),
                      results[Len(results)], rank_by)

\* the fields rank_regions sorts by; any other rank_by leaves the order alone
RankFields == {"urgency_score", "aging_velocity", "old_old_velocity"}

\* rank_regions raises TypeError: analyze_region has raised it for a region,
\* or the sort compares two keys of which one is a complex number
RankRaises(results, rank_by) ==
    \/ \E i \in 1..Len(results) : results[i][2] = TypeError
    \/ /\ rank_by \in RankFields
       /\ Len(results) > 1
       /\ \E i \in 1..Len(results) : rank_by \in results[i][2].complex_fields

\* lines 386-392: the list rank_regions returns when it does not raise
RankSorted(results, rank_by) ==
    IF rank_by \notin RankFields THEN results ELSE SortRanked(results, rank_by)

rank_regions(analysis_years, ref, all_data, rank_by) ==
    RankSorted(RankResults(analysis_years, ref, all_data), rank_by)

\* all_data arguments: dicts of region code to series, in insertion order
AllDataInputs ==
    { <<>>,
      << [k |-> "11680", v |-> (2021 :> A21) @@ (2025 :> A25)],
         [k |-> "11710", v |-> (2021 :> M21) @@ (2023 :> M23) @@ (2025 :> M25)],
         [k |-> "26110", v |-> (2021 :> A21) @@ (2025 :> A25)] >>,
      << [k |-> "26110", v |-> (2021 :> A21) @@ (2025 :> A25)],
         [k |-> "11680", v |-> (2021 :> A21) @@ (2025 :> A25)] >>,
      << [k |-> "11680", v |-> <<>>],
         [k |-> "11710", v |-> (2021 :> A21) @@ (2023 :> A23) @@ (2025 :> A25)],
         [k |-> "26110", v |-> (2021 :> M21) @@ (2023 :> M23) @@ (2025 :> M25)] >>,
      << [k |-> "11680", v |-> (2021 :> A21) @@ (2023 :> A23) @@ (2025 :> N25)],
         [k |-> "11710", v |-> (2021 :> A21) @@ (2025 :> A25)] >> }

\* compare_to_reference on the metrics analyze_region gave for a series and the
\* latest snapshot of that series
ACompareToReference ==
    /\ aqueries < MaxQueries
    /\ \E self \in Analyzers, region_data \in CompareSeries,
          reference_type \in {"national", "parent"} :
          \E metrics \in {analyze_region(analyzers[self].analysis_years,
                                         SelfReference(self), region_data)} :
              /\ metrics # TypeError
              /\ metrics.region_name # ""
              /\ acall' = [op |-> "compare_to_reference", self |-> self,
                           region_data |-> region_data,
                           reference_type |-> reference_type,
                           ret |-> compare_to_reference(
                                      SelfReference(self), metrics,
                                      LatestData(analyzers[self].analysis_years, region_data),
                                      reference_type)]
    /\ aqueries' = aqueries + 1
    /\ UNCHANGED <<NATIONAL_REFERENCE, analyzers, arefs, hvars, cvars, pvars, fvars>>

\* rank_regions; `raised` tells that the call ended in a TypeError
ARankRegions ==
    /\ aqueries < MaxQueries
    /\ \E self \in Analyzers, all_data \in AllDataInputs :
          \E results \in {RankResults(analyzers[self].analysis_years,
                                      SelfReference(self), all_data)} :
              \E rank_by \in RankFields \cup {"old_old_ratio"} :
                  acall' = [op |-> "rank_regions", self |-> self, all_data |-> all_data,
                            rank_by |-> rank_by, raised |-> RankRaises(results, rank_by),
                            ret |-> IF RankRaises(results, rank_by) THEN <<>>
                                    ELSE RankSorted(results, rank_by)]
    /\ aqueries' = aqueries + 1
    /\ UNCHANGED <<NATIONAL_REFERENCE, analyzers, arefs, hvars, cvars, pvars, fvars>>

---------------------------------------------------------------------------
(* The processor as a state machine: process_kosis_dataframe on small frames *)

\* a frame has at most MaxRows rows
MaxRows == 2

\* region labels: 전국, 서울 강남구, 합계
Jeonguk == <<"jeon", "guk">>
SeoulGangnam == <<"seo", "ul", " ", "gang", "nam", "gu">>
Hapgye == <<"hap", "gye">>
\* age labels: 0~4세, 65-69세, 75세 이상, 15~24, 계, 미상
Age0to4 == <<"0", "~", "4", "se">>
Age65to69 == <<"6", "5", "-", "6", "9", "se">>
Age75Plus == <<"7", "5", "se", " ", "i", "sang">>
Age15to24 == <<"1", "5", "~", "2", "4">>
AgeTotal == <<"gye">>
AgeUnknown == <<"mi", "sang">>

RowPool ==
    { Row(Jeonguk, <<"0", "0">>, 2021, Age0to4, "gye", <<1000>>),
      Row(SeoulGangnam, Gangnam_gu, 2021, Age0to4, "gye", <<100>>),
      Row(SeoulGangnam, <<"1", "1", "6", "8", "0">>, 2021, Age75Plus, "gye", <<40>>),
      Row(SeoulGangnam, Gangnam_gu, 2021, Age65to69, "nam", <<30>>),
      Row(SeoulGangnam, Gangnam_gu, 2021, Age65to69, "yeo", <<25>>),
      Row(Hapgye, Gangnam_gu, 2021, Age0to4, "gye", <<500>>),
      Row(SeoulGangnam, Gangnam_gu, 2021, AgeTotal, "gye", <<900>>),
      Row(SeoulGangnam, Gangnam_gu, 2020, Age0to4, "gye", <<70>>),
      Row(SeoulGangnam, Gangnam_gu, 2022, Age15to24, "gye", <<15>>),
      Row(SeoulGangnam, Gangnam_gu, 2021, Age65to69, "MALE", <<8>>),
      Row(SeoulGangnam, Gangnam_gu, 2021, Age0to4, "gye", <<>>),
      Row(SeoulGangnam, Gangnam_gu, 2021, AgeUnknown, "gye", <<5>>),
      Row(SeoulGangnam, Gangnam_gu, 2021, Age15to24, "gye", <<1>>) }

DataFrames ==
    {[rows |-> rows, gender_col |-> g] : rows \in SeqsUpTo(RowPool, MaxRows), g \in BOOLEAN}

\* DemographicProcessor.__init__; <<>> stands for None
NewProcessor(analysis_years) ==
    [analysis_years |-> IF analysis_years # <<>> THEN analysis_years ELSE DefaultYears,
     _cache |-> <<>>]

\* a parent has at most MaxChildren children
MaxChildren == 2
\* a snapshot made from gender-specific rows
G21 ==
    [DemographicData(Gangnam_gu, Gangnam, 2021, 55, 0, 0, 55, 0) EXCEPT
        !.male_population = 30, !.female_population = 25,
        !.male_by_cluster = DictSet(ZeroByCluster, YOUNG_OLD, 30),
        !.female_by_cluster = DictSet(ZeroByCluster, YOUNG_OLD, 25)]
\* the series of a child: no year, years of the analysis window, a year outside
ChildSeries ==
    { <<>>,
      (2021 :> A21) @@ (2025 :> A25),
      (2021 :> G21),
      (2020 :> A21) @@ (2021 :> M21),
      (2023 :> A23) }
ChildrenInputs == SeqsUpTo(ChildSeries, MaxChildren)
NoFrame == [rows |-> <<>>, gender_col |-> TRUE]

PInit ==
    /\ processor \in {NewProcessor(ys) : ys \in {<<>>, <<2021>>}}
    /\ \/ pdf \in DataFrames /\ pchildren = <<>>
       \/ pdf = NoFrame /\ pchildren \in ChildrenInputs
    /\ pcall = [op |-> "none"]

PProcessKosisDataframe ==
    /\ pcall' = [op |-> "process_kosis_dataframe", df |-> pdf,
                 ret |-> process_kosis_dataframe(processor.analysis_years, pdf)]
    /\ UNCHANGED <<processor, pdf, pchildren, hvars, cvars, avars, fvars>>

PAggregateToParent ==
    /\ \E parent \in {<<Slice(LJust(<<"1", "1">>, 10, "0"), 0, 10), "Seoul">>} :
          pcall' = [op |-> "aggregate_to_parent", children_data |-> pchildren,
                    parent_code |-> parent[1], parent_name |-> parent[2],
                    ret |-> aggregate_to_parent(processor.analysis_years, pchildren,
                                                parent[1], parent[2])]
    /\ UNCHANGED <<processor, pdf, pchildren, hvars, cvars, avars, fvars>>

---------------------------------------------------------------------------
(* The pure functions of the processor and the analyzer, each applied to     *)
(* arguments drawn at the start                                              *)

\* a call: the function f and its arguments, integers x, y, z and a str s
Call(f, x, y, z, s) == [f |-> f, x |-> x, y |-> y, z |-> z, s |-> s]
NotCalled == [done |-> FALSE, ret |-> 0]
Returned(ret) == [done |-> TRUE, ret |-> ret]

\* ages 0..MaxAge are tried, as min_age and as max_age
MaxAge == 122
ClusterCalls ==
    {Call("_classify_to_cluster", min_age, max_age, 0, <<>>) :
        min_age \in 0..MaxAge, max_age \in 0..MaxAge}

\* labels of up to MaxLabelLen characters are tried, and three longer ones:
\* 서울 강남구, Total, 계양구 합계
MaxLabelLen == 3
LabelChars == {"gye", "hap", "so", "jeon", "guk", "che", "gu", " "}
Labels ==
    SeqsUpTo(LabelChars, MaxLabelLen)
    \cup { <<"seo", "ul", " ", "gang", "nam", "gu">>, <<"T", "o", "t", "a", "l">>,
           <<"gye", "yang", "gu", " ", "hap", "gye">> }
TotalEntryCalls ==
    {Call(f, 0, 0, 0, label) : f \in {"_is_total_entry", "is_total_entry"}, label \in Labels}

\* start and end values, spans of years, and as end_value also the values
\* times 10 ** HugeExp (s then holds "e")
CagrValues == {-50, 0, 100, 200}
CagrYears == {-1, 0, 1, 2, 4, 5}
CagrCalls ==
    {Call("calculate_cagr", start_value, end_value, years, scale) :
        start_value \in CagrValues, end_value \in CagrValues,
        years \in CagrYears, scale \in {<<>>, <<"e">>}}
EndExp(scale) == IF scale = <<>> THEN 0 ELSE HugeExp

\* velocities of -MaxVelocity to MaxVelocity per cent, in steps of 0.01
MaxVelocity == 7
TrendCalls ==
    {Call("classify_trend", velocity, 0, 0, <<>>) :
        velocity \in (-MaxVelocity * PCT)..(MaxVelocity * PCT)}

\* the metrics of the spec's scenario 9
ScenarioMetrics ==
    analyze_region(DefaultYears, NATIONAL_REFERENCE_0, (2021 :> A21) @@ (2025 :> A25))

\* _calculate_urgency is called on the metrics and the last snapshot of a
\* region, the metrics with an aging_velocity of -MaxVelocity to MaxVelocity
\* per cent in steps of 0.25: the spec's scenario 9, a large and fast-ageing
\* region, a region with nobody in it, a region whose other five sub-scores
\* are at their cap, and a region with a negative count
UrgencyCases ==
    << [metrics |-> ScenarioMetrics, current_data |-> A25],
       [metrics |-> analyze_region(DefaultYears, NATIONAL_REFERENCE_0,
                                   (2021 :> M21) @@ (2023 :> M23) @@ (2025 :> M25)),
        current_data |-> M25],
       [metrics |-> TrendMetrics(Gangnam_gu, Gangnam, 2021, 2021), current_data |-> Z21],
       [metrics |-> [TrendMetrics(Gangnam_gu, Gangnam, 2021, 2025) EXCEPT
                        !.old_old_acceleration = 9 * PCT, !.youth_velocity = -9 * PCT],
        current_data |-> C25],
       [metrics |-> TrendMetrics(Gangnam_gu, Gangnam, 2023, 2023), current_data |-> N23] >>
UrgencyVelocities == {25 * k : k \in (-4 * MaxVelocity)..(4 * MaxVelocity)}
UrgencyCalls ==
    {Call("_calculate_urgency", aging_velocity, case, 0, <<>>) :
        aging_velocity \in UrgencyVelocities, case \in DOMAIN UrgencyCases}

\* _calculate_urgency(metrics, current_data) of case `case`, the metrics
\* holding `aging_velocity`
UrgencyOf(ref, aging_velocity, case) ==
    _calculate_urgency(ref,
                       [UrgencyCases[case].metrics EXCEPT !.aging_velocity = aging_velocity],
                       UrgencyCases[case].current_data)

\* the allocation of one row to the clusters (the body of the loop over the
\* rows of a group): age ranges within one cluster and over 2, 3 and 4
\* clusters, populations 0..MaxPop, gender "계"
MaxPop == 183
AllocRanges ==
    { <<0, 4>>, <<15, 19>>, <<15, 24>>, <<0, 21>>, <<60, 79>>, <<31, 91>>,
      <<75, 120>>, <<0, 120>>, <<10, 80>> }
AllocCalls ==
    {Call("allocate", range[1], range[2], pop, <<>>) :
        range \in AllocRanges, pop \in 0..MaxPop}

\* a new snapshot, as line 249 makes it
NewDemo ==
    [DemographicData(Gangnam_gu, Gangnam, 2021, 0, 0, 0, 0, 0)
        EXCEPT !.male_by_cluster = ZeroByCluster, !.female_by_cluster = ZeroByCluster]

FunCalls ==
    ClusterCalls \cup TotalEntryCalls \cup CagrCalls \cup TrendCalls \cup UrgencyCalls
    \cup AllocCalls

FInit == fin \in FunCalls /\ fout = NotCalled

FClassifyToCluster ==
    /\ fin.f = "_classify_to_cluster"
    /\ fout' = Returned(_classify_to_cluster(fin.x, fin.y))
    /\ UNCHANGED <<fin, hvars, cvars, avars, pvars>>

\* DemographicProcessor._is_total_entry
FIsTotalEntry ==
    /\ fin.f = "_is_total_entry"
    /\ fout' = Returned(_is_total_entry(fin.s))
    /\ UNCHANGED <<fin, hvars, cvars, avars, pvars>>

\* KIKcdHierarchy.is_total_entry
FHierarchyIsTotalEntry ==
    /\ fin.f = "is_total_entry"
    /\ fout' = Returned(is_total_entry(fin.s))
    /\ UNCHANGED <<fin, hvars, cvars, avars, pvars>>

FCalculateCagr ==
    /\ fin.f = "calculate_cagr"
    /\ fout' = Returned(calculate_cagr_int(fin.x, fin.y, EndExp(fin.s), fin.z))
    /\ UNCHANGED <<fin, hvars, cvars, avars, pvars>>

FClassifyTrend ==
    /\ fin.f = "classify_trend"
    /\ fout' = Returned(classify_trend(fin.x))
    /\ UNCHANGED <<fin, hvars, cvars, avars, pvars>>

\* lines 274-296 of process_kosis_dataframe, on a new snapshot
FAllocate ==
    /\ fin.f = "allocate"
    /\ fout' = Returned(AddClusters(NewDemo, _classify_to_cluster(fin.x, fin.y),
                                    "gye", fin.z))
    /\ UNCHANGED <<fin, hvars, cvars, avars, pvars>>

FCalculateUrgency ==
    /\ fin.f = "_calculate_urgency"
    /\ fout' = Returned(UrgencyOf(NATIONAL_REFERENCE, fin.x, fin.y))
    /\ UNCHANGED <<fin, hvars, cvars, avars, pvars>>

---------------------------------------------------------------------------
(* Specifications *)

\* Idle values of the variables a specification does not use
CIdle == ccode = <<>> /\ cout = [op |-> "none"]

AIdle ==
    /\ NATIONAL_REFERENCE = NATIONAL_REFERENCE_0
    /\ analyzers = [a \in Analyzers |-> NewAnalyzer(<<>>)]
    /\ acall = [op |-> "none"]
    /\ arefs = 0
    /\ aqueries = 0

PIdle ==
    /\ processor = NewProcessor(<<>>)
    /\ pdf = [rows |-> <<>>, gender_col |-> TRUE]
    /\ pchildren = <<>>
    /\ pcall = [op |-> "none"]

FIdle == fin = Call("none", 0, 0, 0, <<>>) /\ fout = NotCalled

Init == HInit /\ CIdle /\ AIdle /\ PIdle /\ FIdle
Next == HAddRegion
Spec == Init /\ [][Next]_vars

InitCode == HInit /\ CInit /\ AIdle /\ PIdle /\ FIdle
NextCode == CParseCode \/ CNormalizeCode \/ CGetParentCode
SpecCode == InitCode /\ [][NextCode]_vars

InitAn == HInit /\ CIdle /\ AInit /\ PIdle /\ FIdle
NextAn == ASetNationalReference \/ AAnalyzeRegion \/ ACompareToReference \/ ARankRegions
SpecAn == InitAn /\ [][NextAn]_vars

InitProc == HInit /\ CIdle /\ AIdle /\ PInit /\ FIdle
NextProc == PProcessKosisDataframe \/ PAggregateToParent
SpecProc == InitProc /\ [][NextProc]_vars

InitFun == HInit /\ CIdle /\ AIdle /\ PIdle /\ FInit
NextFun ==
    \/ FClassifyToCluster
    \/ FIsTotalEntry
    \/ FHierarchyIsTotalEntry
    \/ FCalculateCagr
    \/ FClassifyTrend
    \/ FCalculateUrgency
    \/ FAllocate
SpecFun == InitFun /\ [][NextFun]_vars

---------------------------------------------------------------------------
(* Claims about the processor *)

\* the snapshots of a result of process_kosis_dataframe
Snapshots(results) ==
    UNION {SeqToSet(DictValues(results[i].v)) : i \in 1..Len(results)}
IsNationalRow(r) == r.region = Jeonguk
NotNationalRow(r) == ~IsNationalRow(r)

\* C2: process_kosis_dataframe drops the rows labelled "전국" before it
\* classifies: no snapshot of the result is built from such a row, and the
\* result is the one the frame without those rows gives
CE_C2_NationalRowsDropped ==
    pcall.op = "process_kosis_dataframe" =>
        /\ \A demo \in Snapshots(pcall.ret) : demo.region_name # Jeonguk
        /\ pcall.ret = process_kosis_dataframe(
                           processor.analysis_years,
                           [pcall.df EXCEPT !.rows = SelectSeq(@, NotNationalRow)])

\* a row with its region code padded to 10 characters
WithPaddedCode(r) == [r EXCEPT !.region_code = Slice(LJust(@, 10, "0"), 0, 10)]
\* the rows of a frame with their region codes padded, in the same order
PaddedRows(rows) == [i \in 1..Len(rows) |-> WithPaddedCode(rows[i])]

\* C22: process_kosis_dataframe pads the region codes to 10 characters before
\* it groups: a frame gives the result it gives with every code padded
\* beforehand, so rows of one year whose codes differ only by the padding are
\* accumulated into one snapshot and none is discarded or overwritten
CE_C22_CodesPaddedBeforeGrouping ==
    pcall.op = "process_kosis_dataframe" =>
        pcall.ret = process_kosis_dataframe(
                        processor.analysis_years,
                        [pcall.df EXCEPT !.rows = PaddedRows(@)])

\* str.lower() of the gender labels in use
Lower(gender) ==
    CASE gender \in {"MALE", "Male", "male"} -> "male"
      [] gender \in {"FEMALE", "Female", "female"} -> "female"
      [] gender \in {"M", "m"} -> "m"
      [] gender \in {"F", "f"} -> "f"
      [] OTHER -> gender
\* a row with its gender as the recognized token it equals but for letter case
WithGenderToken(r) ==
    LET male == \E i \in 1..Len(MALE_LABELS) : Lower(MALE_LABELS[i]) = Lower(r.gender)
        female == \E i \in 1..Len(FEMALE_LABELS) : Lower(FEMALE_LABELS[i]) = Lower(r.gender)
    IN  [r EXCEPT !.gender = IF male THEN "male" ELSE IF female THEN "female" ELSE @]

\* C15: process_kosis_dataframe matches gender without regard to letter case:
\* a frame gives the result it gives with every gender written as the
\* recognized token
CE_C15_GenderCaseInsensitive ==
    pcall.op = "process_kosis_dataframe" =>
        pcall.ret = process_kosis_dataframe(
                        processor.analysis_years,
                        [pcall.df EXCEPT !.rows =
                            [i \in 1..Len(@) |-> WithGenderToken(@[i])]])

\* the sum of a numeric field over the children that have a snapshot for the year
RECURSIVE FieldSum(_, _, _)
FieldSum(children_data, year, field) ==
    IF children_data = <<>> THEN 0
    ELSE (IF year \in DOMAIN Head(children_data)
          THEN Head(children_data)[year][field] ELSE 0)
         + FieldSum(Tail(children_data), year, field)
\* the same for a cluster of male_by_cluster or female_by_cluster
RECURSIVE ByClusterSum(_, _, _, _)
ByClusterSum(children_data, year, field, cluster) ==
    IF children_data = <<>> THEN 0
    ELSE (IF year \in DOMAIN Head(children_data)
          THEN DictGet(Head(children_data)[year][field], cluster, 0) ELSE 0)
         + ByClusterSum(Tail(children_data), year, field, cluster)
NumericFields ==
    {"total_population", "male_population", "female_population",
     "children_youth", "productive", "young_old", "old_old"}
Reverse(l) == [i \in 1..Len(l) |-> l[Len(l) + 1 - i]]

C16_SumsOfChildren ==
    pcall.op = "aggregate_to_parent" =>
        /\ DictKeys(pcall.ret) = SeqToSet(processor.analysis_years)
        /\ Len(pcall.ret) = Cardinality(DictKeys(pcall.ret))
        /\ \A year \in DictKeys(pcall.ret) :
              LET demo == DictGet(pcall.ret, year, NoneRegion)
              IN  /\ demo.region_code = pcall.parent_code
                  /\ demo.region_name = pcall.parent_name
                  /\ demo.year = year
                  /\ \A field \in NumericFields :
                        demo[field] = FieldSum(pcall.children_data, year, field)
                  /\ \A field \in {"male_by_cluster", "female_by_cluster"} :
                        /\ DictKeys(demo[field]) = SeqToSet(WelfareCluster)
                        /\ \A cluster \in SeqToSet(WelfareCluster) :
                              DictGet(demo[field], cluster, 0)
                              = ByClusterSum(pcall.children_data, year, field, cluster)
        /\ pcall.ret = aggregate_to_parent(processor.analysis_years,
                                           Reverse(pcall.children_data),
                                           pcall.parent_code, pcall.parent_name)
        /\ pcall.children_data = pchildren
C16_ChildrenUntouched == pchildren' = pchildren

\* C16: aggregate_to_parent returns one new snapshot per year of
\* analysis_years, in which every numeric field (total, male and female
\* population, the four clusters, each gendered cluster) is the sum of that
\* field over the children that have a snapshot for the year; a child without
\* the year adds nothing, the order of the children does not matter, and no
\* child snapshot is changed
Thm_C16_AggregateSumsChildren ==
    [](C16_SumsOfChildren) /\ [][C16_ChildrenUntouched]_vars
\* C16's case: two children, of which one lacks a year the other has, and one
\* carries gendered counts
Wit_C16_ChildLacksYear ==
    /\ pcall.op = "aggregate_to_parent"
    /\ Len(pcall.children_data) = 2
    /\ pcall.children_data[1] = (2021 :> G21)
    /\ 2025 \in DOMAIN pcall.children_data[2]
    /\ {2021, 2025} \subseteq DictKeys(pcall.ret)
    /\ DictGet(pcall.ret, 2021, NoneRegion).male_population = 30
    /\ DictGet(pcall.ret, 2021, NoneRegion).total_population = 100055
    /\ DictGet(pcall.ret, 2025, NoneRegion).total_population = 98000

---------------------------------------------------------------------------
(* Claims about the analyzer *)

\* C1: the urgency_score of every TrendMetrics that analyze_region returns lies
\* between 0 and 100, whatever the snapshots hold
CE_C1_UrgencyScoreInRange ==
    (acall.op = "analyze_region" /\ acall.ret # TypeError)
        => (0 <= acall.ret.urgency_score /\ acall.ret.urgency_score <= 100 * SCORE)

\* C3: a set_national_reference call on one analyzer leaves the reference
\* constants of every other analyzer as they were, so analyze_region and
\* compare_to_reference on another analyzer give the same result on the same
\* input before and after the call
C3_OthersUnchanged ==
    arefs' # arefs =>
        \A other \in Analyzers \ {acall'.self} :
            /\ SelfReference(other)' = SelfReference(other)
            /\ compare_to_reference(SelfReference(other), ScenarioMetrics, A25,
                                    "national")'
               = compare_to_reference(SelfReference(other), ScenarioMetrics, A25,
                                      "national")
CE_C3_ReferencePerInstance == [][C3_OthersUnchanged]_vars

\* the level the spec gives a score: CRITICAL from 80, HIGH from 60, ELEVATED
\* from 40, MODERATE from 20, LOW below
LevelOfScore(score) ==
    CASE score >= 80 * SCORE -> "CRITICAL"
      [] score < 80 * SCORE /\ score >= 60 * SCORE -> "HIGH"
      [] score < 60 * SCORE /\ score >= 40 * SCORE -> "ELEVATED"
      [] score < 40 * SCORE /\ score >= 20 * SCORE -> "MODERATE"
      [] OTHER -> "LOW"

\* C25: every TrendMetrics that analyze_region returns, the degenerate results
\* for 0 or 1 available years included, has the urgency_level that
\* classify_urgency gives its urgency_score
CE_C25_LevelMatchesScore ==
    (acall.op = "analyze_region" /\ acall.ret # TypeError) =>
        acall.ret.urgency_level = LevelOfScore(acall.ret.urgency_score)

\* the same for the results of two or more available years
C25_FullResults ==
    (acall.op = "analyze_region" /\ acall.ret # TypeError
        /\ acall.ret.yearly_populations # <<>>) =>
        acall.ret.urgency_level = LevelOfScore(acall.ret.urgency_score)

\* the place of a region code among the keys of a dict
IndexOfKey(all_data, code) == CHOOSE i \in 1..Len(all_data) : all_data[i].k = code

Ranked == acall.op = "rank_regions" /\ acall.rank_by \in RankFields /\ ~acall.raised

PresentYears(self, region_data) ==
    {y \in SeqToSet(analyzers[self].analysis_years) : y \in DOMAIN region_data}

\* every derived metric of a TrendMetrics is at its zero or empty default
DerivedAtDefault(metrics) ==
    /\ metrics.total_change_absolute = 0 /\ metrics.total_change_percent = 0
    /\ metrics.aging_velocity = 0 /\ metrics.old_old_velocity = 0
    /\ metrics.youth_velocity = 0 /\ metrics.old_old_acceleration = 0
    /\ metrics.dependency_change = 0
    /\ metrics.urgency_score = 0 /\ metrics.urgency_factors = <<>>
    /\ metrics.yearly_aging_ratios = <<>> /\ metrics.yearly_populations = <<>>
    /\ metrics.yearly_elderly = <<>>

\* C19: analyze_region signals insufficient data by a degenerate result and
\* never an error: with no year of analysis_years in the series it returns a
\* TrendMetrics with empty region_code and region_name; with exactly one it
\* returns a TrendMetrics with the region's code and name, that year as
\* start_year and end_year, and every derived metric at its default; a year
\* outside analysis_years does not count
CE_C19_InsufficientDataDegenerate ==
    acall.op = "analyze_region" =>
        LET present == PresentYears(acall.self, acall.region_data)
            metrics == acall.ret
        IN  /\ present = {} =>
                /\ metrics # TypeError
                /\ metrics.region_code = "" /\ metrics.region_name = ""
            /\ Cardinality(present) = 1 =>
                /\ metrics # TypeError
                /\ \A y \in present :
                      /\ metrics.region_code = acall.region_data[y].region_code
                      /\ metrics.region_name = acall.region_data[y].region_name
                      /\ metrics.start_year = y /\ metrics.end_year = y
                /\ DerivedAtDefault(metrics)

\* the same for an analyzer whose analysis_years name no year twice
C19_DistinctYears ==
    (acall.op = "analyze_region"
        /\ Cardinality(SeqToSet(analyzers[acall.self].analysis_years))
              = Len(analyzers[acall.self].analysis_years))
    => CE_C19_InsufficientDataDegenerate

---------------------------------------------------------------------------
(* Claims about the hierarchy *)

\* the codes lookups are tried on: every add_region argument, padded and not,
\* and codes that are never registered
LookupCodes ==
    AddCodes \cup {PadCode(c) : c \in AddCodes}
    \cup { <<"9","9">>, <<"2","6">>, <<"1","1","6","8">>,
           <<"1","1","6","8","0","2">>, <<"2","6","1","1","0","1">>, <<>> }

NoDuplicates(l) == \A i, j \in 1..Len(l) : l[i] = l[j] => i = j
RegisteredRegions == SeqToSet(DictValues(_regions))

\* C4: every registered region is stored under a 10-character key equal to its
\* code, its level is the level parse_code derives from its code, and its
\* parent_code is get_parent_code of its code.
Thm_C4_RegionDerivedFromCode ==
    \A i \in 1..Len(_regions) :
        LET key == _regions[i].k
            r == _regions[i].v
        IN  /\ Len(key) = CODE_LEN
            /\ key = r.code
            /\ r.level = parse_code(r.code).level
            /\ r.parent_code = get_parent_code(r.code)

\* C4's case: a tertiary region registered from a code longer than 10 characters
Wit_C4_LongCodeRegistered ==
    /\ hcall.op = "add_region"
    /\ Len(hcall.code) > CODE_LEN
    /\ IsRegistered(hcall.code)
    /\ get_region(hcall.code).level = EMD
    /\ get_region(hcall.code).parent_code = <<"1","1","6","8","0","0","0","0","0","0">>

\* C5: normalising a 10-character code to its own parsed level returns it.
Thm_C5_NormalizeRoundTrip ==
    (/\ cout.op = "normalize_code"
     /\ Len(ccode) = CODE_LEN
     /\ cout.target_level = parse_code(ccode).level)
    => cout.ret = ccode

\* C5's case: a secondary-level code normalised to SIGUNGU
Wit_C5_SigunguRoundTrip ==
    /\ cout.op = "normalize_code"
    /\ Len(ccode) = CODE_LEN
    /\ cout.target_level = SIGUNGU
    /\ parse_code(ccode).level = SIGUNGU
    /\ cout.ret = ccode

\* `code` (10 characters) with every segment finer than `level` set to zeros
ZeroedBelow(code, level) ==
    LET keep == CASE level = NATIONAL -> 0
                  [] level = SIDO -> SIDO_LEN
                  [] level = SIGUNGU -> SIGUNGU_LEN
                  [] level = EMD -> CODE_LEN
    IN  [i \in 1..CODE_LEN |-> IF i <= keep THEN code[i] ELSE "0"]

\* C6: normalize_code(c, L) is c padded/truncated to 10 characters with every
\* segment finer than L set to zeros, for each of the four levels.
CE_C6_NormalizeZeroesFinerSegments ==
    cout.op = "normalize_code"
    => cout.ret = ZeroedBelow(PadCode(ccode), cout.target_level)

C8_DedupAndOverwrite ==
    /\ \A i \in 1..Len(_sido_index) : NoDuplicates(_sido_index[i].v)
    /\ \A i \in 1..Len(_sigungu_index) : NoDuplicates(_sigungu_index[i].v)
    /\ \A i, j \in 1..Len(_regions) : _regions[i].k = _regions[j].k => i = j
    /\ hcall.op = "add_region" =>
          /\ get_region(hcall.code) = hcall.ret
          /\ hcall.ret.name = hcall.name
          /\ hcall.ret.is_active = hcall.is_active
          /\ hcall.ret.expired_date = hcall.expired_date

\* C8, the step part: an add_region call with the arguments of the call before
\* it leaves the region set and both child indices as they were.
C8_SecondCallChangesNothing ==
    (/\ hcall.op = "add_region"
     /\ hcall'.op = "add_region"
     /\ hcall'.code = hcall.code
     /\ hcall'.name = hcall.name
     /\ hcall'.is_active = hcall.is_active
     /\ hcall'.expired_date = hcall.expired_date)
    => (/\ _regions' = _regions
        /\ _sido_index' = _sido_index
        /\ _sigungu_index' = _sigungu_index)

\* C8: add_region re-registration is idempotent.
Thm_C8_AddRegionIdempotent ==
    [](C8_DedupAndOverwrite) /\ [][C8_SecondCallChangesNothing]_vars

\* C8's case: two add_region calls registered one and the same new code, which
\* its parent's index lists once
Wit_C8_Reregistered ==
    /\ hcalls = 2
    /\ Len(_regions) = Len(InitRegions) + 1
    /\ \/ \E i \in 1..Len(_sido_index) : Len(_sido_index[i].v) = 1
       \/ \E i \in 1..Len(_sigungu_index) : Len(_sigungu_index[i].v) = 1

RegionNames(l) == [i \in 1..Len(l) |-> l[i].name]

ChildrenOf(p) ==
    {r \in RegisteredRegions :
        /\ r.parent_code = p
        /\ LevelValue(r.level) = LevelValue(parse_code(p).level) + 1}

FilterCodes ==
    { <<"1", "1">>, Gangnam_gu, <<"1", "1", "6", "8", "0", "1", "0", "1", "0", "0">>,
      <<"9", "9", "1", "1">>, <<"2", "6">>, <<"0", "0">> }
FilterLists == SeqsUpTo(FilterCodes, 2)
FilterYears == {2020, 2021, 2025}
\* a region that expired more than five years before the reference year
ExpiredBefore(r, reference_year) ==
    /\ ~r.is_active
    /\ r.expired_date # NoneStr
    /\ ExpYear(r.expired_date) # <<>>
    /\ ExpYear(r.expired_date)[1] < reference_year - 5
KeptBy(code, reference_year) ==
    \E r \in RegisteredRegions :
        r.code = PadCode(code) /\ ~ExpiredBefore(r, reference_year)

\* C11: filter_active_regions returns, in input order, exactly the input codes
\* that are registered and are not both inactive and expired more than five
\* years before reference_year; an unregistered code is dropped, an inactive
\* region without expired_date is kept
Thm_C11_FilterActiveRegions ==
    \A codes \in FilterLists, reference_year \in FilterYears :
        LET out == filter_active_regions(codes, reference_year)
            keep(c) == KeptBy(c, reference_year)
        IN  out = SelectSeq(codes, keep)
\* C11's case: of two registered inactive regions, the one that expired in 2015
\* is dropped for reference year 2025 and kept for 2020, the one with no
\* expired_date is kept, and an unregistered code is dropped
Wit_C11_ExpiredDroppedUndatedKept ==
    \E c1, c2 \in FilterCodes :
        /\ get_region(c1) # NoneRegion /\ get_region(c1).expired_date = Date2015
        /\ get_region(c2) # NoneRegion /\ ~get_region(c2).is_active
        /\ get_region(c2).expired_date = NoneStr
        /\ filter_active_regions(<<c1, c2>>, 2025) = <<c2>>
        /\ filter_active_regions(<<c2, c1>>, 2020) = <<c2, c1>>
        /\ filter_active_regions(<<c1, <<"9", "9", "1", "1">> >>, 2020) = <<c1>>


---------------------------------------------------------------------------
(* Claims about the pure functions of the processor *)

\* the sum of the overlap lengths of a result of _classify_to_cluster
RECURSIVE SumOverlap(_)
SumOverlap(cw) == IF cw = <<>> THEN 0 ELSE Head(cw).overlap_range + SumOverlap(Tail(cw))
ClassifyReturned == fin.f = "_classify_to_cluster" /\ fout.done

\* C12: for every age a in 0..120, _classify_to_cluster(a, a) returns exactly
\* one (cluster, proportion) pair, and its proportion is 1
Thm_C12_ClustersPartitionAges ==
    (ClassifyReturned /\ fin.x = fin.y /\ fin.x \in 0..120) =>
        /\ Len(fout.ret) = 1
        /\ fout.ret[1].overlap_range = fout.ret[1].total_range
\* C12's case: age 65, the first of the young-old ages, is classified
Wit_C12_Age65 ==
    /\ ClassifyReturned /\ fin.x = 65 /\ fin.y = 65
    /\ fout.ret = <<[cluster |-> YOUNG_OLD, overlap_range |-> 1, total_range |-> 1]>>

\* C13: for 0 <= min_age <= max_age <= 120 the overlap lengths that
\* _classify_to_cluster returns sum to max_age - min_age + 1, so the proportions
\* sum to 1, and each proportion is the length of the overlap of the range with
\* the cluster's ages, which is not empty, over max_age - min_age + 1
Thm_C13_ProportionsSumToOne ==
    (ClassifyReturned /\ 0 <= fin.x /\ fin.x <= fin.y /\ fin.y <= 120) =>
        /\ SumOverlap(fout.ret) = fin.y - fin.x + 1
        /\ \A i \in 1..Len(fout.ret) :
              LET c == fout.ret[i].cluster
                  common == (fin.x .. fin.y) \cap (age_range(c)[1] .. age_range(c)[2])
              IN  /\ common # {}
                  /\ fout.ret[i].overlap_range = Cardinality(common)
                  /\ fout.ret[i].total_range = fin.y - fin.x + 1
\* C13's case: a range over all four clusters
Wit_C13_RangeOverFourClusters ==
    /\ ClassifyReturned /\ fin.x = 10 /\ fin.y = 80
    /\ Len(fout.ret) = 4
    /\ fout.ret[2].overlap_range = 46 /\ fout.ret[2].total_range = 71


\* C14: on every label the processor's _is_total_entry returns what the
\* hierarchy's is_total_entry returns
CE_C14_TotalEntryChecksAgree ==
    /\ (fin.f = "_is_total_entry" /\ fout.done) => fout.ret = is_total_entry(fin.s)
    /\ (fin.f = "is_total_entry" /\ fout.done) => fout.ret = _is_total_entry(fin.s)


---------------------------------------------------------------------------
(* Claims about the pure functions of the analyzer *)

CagrReturned == fin.f = "calculate_cagr" /\ fout.done
Float(v) == [complex |-> FALSE, v |-> v]

\* C17: calculate_cagr(start_value, end_value, years) returns 0 whenever
\* start_value <= 0 or years <= 0, returns 0 whenever end_value == start_value
\* > 0 and years > 0, returns 100 for (100, 200, 1), and raises for no numeric
\* input
CE_C17_CagrNeverRaises ==
    CagrReturned =>
        /\ (fin.x <= 0 \/ fin.z <= 0) => fout.ret = Float(0)
        /\ (fin.s = <<>> /\ fin.y = fin.x /\ fin.x > 0 /\ fin.z > 0) => fout.ret = Float(0)
        /\ (fin.s = <<>> /\ fin.x = 100 /\ fin.y = 200 /\ fin.z = 1) => fout.ret = Float(100 * PCT)
        /\ fout.ret # OverflowError

TrendReturned == fin.f = "classify_trend" /\ fout.done

Allocated == fin.f = "allocate" /\ fout.done

\* C24: floor allocation only undercounts: of a row with population p >= 0 and
\* an age range 0 <= min_age <= max_age <= 120 over k clusters, each cluster
\* receives floor(p * overlap_length / range_length), the amounts sum to at
\* most p, and the shortfall is at most k - 1
CE_C24_FloorAllocation ==
    Allocated =>
        LET p == fin.z
            cluster_weights == _classify_to_cluster(fin.x, fin.y)
            k == Len(cluster_weights)
            demo == fout.ret
        IN  /\ \A i \in 1..k :
                  demo[cluster_weights[i].cluster]
                      = (p * cluster_weights[i].overlap_range)
                            \div cluster_weights[i].total_range
            /\ demo.total_population <= p
            /\ p - demo.total_population <= k - 1

\* the sub-scores and the score before the final min(100, score) of the call
CallSubScores ==
    SubScores([UrgencyCases[fin.y].metrics EXCEPT !.aging_velocity = fin.x],
              UrgencyCases[fin.y].current_data)
WeightNames == DOMAIN URGENCY_WEIGHTS
AllAtCap == \A w \in WeightNames : CallSubScores[w] = 25 * PCT

UrgencyReturned == fin.f = "_calculate_urgency" /\ fout.done

\* C20: the urgency score is monotone in the aging velocity: of two inputs to
\* _calculate_urgency that differ only in aging_velocity, v1 <= v2, the one
\* with v2 gets an urgency score at least as high
Thm_C20_UrgencyMonotoneInVelocity ==
    UrgencyReturned =>
        \A v2 \in UrgencyVelocities :
            fin.x <= v2 =>
                fout.ret.score <= UrgencyOf(NATIONAL_REFERENCE, v2, fin.y).score

\* a negative velocity has been scored, and a higher velocity scores higher
Wit_C20_NegativeVelocityScored ==
    /\ UrgencyReturned /\ fin.x = -2 * PCT
    /\ fout.ret.score < UrgencyOf(NATIONAL_REFERENCE, 3 * PCT, fin.y).score

---------------------------------------------------------------------------
(* Navigation up and down *)

\* every registered region with a parent_code is a child and a sibling of itself
ChildrenKnowParent ==
    \A r \in RegisteredRegions :
        Truthy(r.parent_code) =>
            /\ InList(r, navigate_down(r.parent_code))
            /\ InList(r, get_siblings(r.code))

\* every region navigate_down(p) returns has the padded p as its parent_code
ParentsKnowChildren ==
    \A p \in DictKeys(_regions) \cup DictKeys(_sido_index) \cup DictKeys(_sigungu_index) :
        \A r \in SeqToSet(navigate_down(p)) : r.parent_code = PadCode(p)

\* C26: in every state reached by add_region calls, every registered region
\* with a parent_code is among navigate_down(parent_code) and among its own
\* siblings, and every region navigate_down(p) returns has parent_code equal
\* to p padded to 10 characters
CE_C26_UpAndDownAgree == ChildrenKnowParent /\ ParentsKnowChildren

\* the downward half alone
C26_ParentsKnowChildren == ParentsKnowChildren

---------------------------------------------------------------------------
(* Full names *)

\* the name an ancestor contributes: its name, or nothing when not registered
SegmentOf(code) == IF IsRegistered(code) THEN get_region(code).name ELSE ""

\* name_full of r is built from the names its ancestors have now
FullNameConsistent(r) ==
    LET p == parse_code(r.code)
        sido_code == LJust(p.sido, CODE_LEN, "0")
        sigungu_code == LJust(p.sido \o p.sigungu, CODE_LEN, "0")
    IN  /\ (r.level = SIGUNGU /\ IsRegistered(sido_code)) =>
               r.name_full = get_region(sido_code).name \o " " \o r.name
        /\ r.level = EMD =>
               r.name_full = SegmentOf(sido_code) \o " " \o SegmentOf(sigungu_code)
                                \o " " \o r.name

\* C27: in every state reached by add_region calls, the name_full of a
\* registered second-level region is its first-level ancestor's name, a space
\* and its own name, and that of a third-level region is the names of its two
\* ancestors and its own, an unregistered ancestor contributing nothing
CE_C27_FullNamesFollowAncestors == \A r \in RegisteredRegions : FullNameConsistent(r)

\* the region add_region has just returned has a consistent name_full
C27_ConsistentWhenRegistered ==
    hcall.op = "add_region" => FullNameConsistent(hcall.ret)

---------------------------------------------------------------------------
(* The snapshots of process_kosis_dataframe *)

\* the rows of a frame that reach the grouping under (region_code, year): not
\* a total entry, a year of the analysis
GroupedRows(analysis_years, df, region_code, year) ==
    SelectSeq(df.rows,
        LAMBDA r : /\ ~_is_total_entry(r.region) /\ ~_is_total_entry(r.age_group)
                   /\ InList(r.year, analysis_years)
                   /\ PadCode(r.region_code) = region_code /\ r.year = year)

\* those of them that are counted: the age label parses
CountedRows(analysis_years, df, region_code, year) ==
    SelectSeq(GroupedRows(analysis_years, df, region_code, year),
        LAMBDA r : _parse_age_group(Str(r.age_group)) # NoRange)

\* the row is counted as male or female
IsGendered(df, r) ==
    df.gender_col /\ (InList(r.gender, MALE_LABELS) \/ InList(r.gender, FEMALE_LABELS))

RowPopulation(r) == IF r.population # <<>> THEN r.population[1] ELSE 0

RECURSIVE SumByCluster(_)
SumByCluster(by_cluster) ==
    IF by_cluster = <<>> THEN 0 ELSE Head(by_cluster).v + SumByCluster(Tail(by_cluster))

\* the four cluster totals of a snapshot
ClusterTotals(demo) == [i \in 1..Len(WelfareCluster) |-> demo[WelfareCluster[i]]]

\* the totals add up, whatever the rows
TotalsAddUp(demo) ==
    /\ demo.total_population
          = demo.children_youth + demo.productive + demo.young_old + demo.old_old
    /\ demo.male_population = SumByCluster(demo.male_by_cluster)
    /\ demo.female_population = SumByCluster(demo.female_by_cluster)

\* a group of gendered rows only: each cluster total is male plus female
GenderedOnlyBackfilled(demo, rows, df) ==
    (rows # <<>> /\ \A i \in 1..Len(rows) : IsGendered(df, rows[i])) =>
        \A i \in 1..Len(WelfareCluster) :
            demo[WelfareCluster[i]]
                = DictGet(demo.male_by_cluster, WelfareCluster[i], 0)
                  + DictGet(demo.female_by_cluster, WelfareCluster[i], 0)

\* a group with an aggregate row of positive population: the cluster totals
\* are those of the aggregate rows alone
AggregateRowsAlone(demo, rows, df) ==
    LET aggregate == SelectSeq(rows, LAMBDA r : ~IsGendered(df, r))
        alone == ProcessRows(DemographicData(demo.region_code, demo.region_name,
                                             demo.year, 0, 0, 0, 0, 0),
                             aggregate, df.gender_col)
    IN  (\E i \in 1..Len(aggregate) : RowPopulation(aggregate[i]) > 0) =>
            ClusterTotals(demo) = ClusterTotals(alone)

\* the snapshots of a call whose rows came from one group: every row of the
\* padded code and year carries the same region_code
OneGroupSnapshots ==
    {demo \in Snapshots(pcall.ret) :
        LET rows == GroupedRows(processor.analysis_years, pcall.df,
                                demo.region_code, demo.year)
        IN  \A i, j \in 1..Len(rows) : rows[i].region_code = rows[j].region_code}

\* C28: every snapshot of process_kosis_dataframe has total_population equal
\* to the sum of the four cluster totals and male_population, female_population
\* equal to the sums of male_by_cluster, female_by_cluster; for a group of
\* gendered rows only each cluster total is male plus female of that cluster;
\* for a group with an aggregate row of positive population the cluster totals
\* are those of the aggregate rows alone
CE_C28_SnapshotsConsistent ==
    pcall.op = "process_kosis_dataframe" =>
        \A demo \in OneGroupSnapshots :
            LET rows == CountedRows(processor.analysis_years, pcall.df,
                                    demo.region_code, demo.year)
            IN  /\ TotalsAddUp(demo)
                /\ GenderedOnlyBackfilled(demo, rows, pcall.df)
                /\ AggregateRowsAlone(demo, rows, pcall.df)

\* the sums and the gendered-only half
C28_TotalsAndBackfill ==
    pcall.op = "process_kosis_dataframe" =>
        \A demo \in OneGroupSnapshots :
            /\ TotalsAddUp(demo)
            /\ GenderedOnlyBackfilled(demo,
                   CountedRows(processor.analysis_years, pcall.df,
                               demo.region_code, demo.year), pcall.df)

---------------------------------------------------------------------------
(* Termination of build_breadcrumb *)

\* the number of turns of build_breadcrumb's loop started at `current`, or -1
\* when the loop is still running after `fuel` turns
RECURSIVE LoopTurns(_, _)
LoopTurns(current, fuel) ==
    IF current = NoneRegion THEN 0
    ELSE IF fuel = 0 THEN -1
    ELSE IF Truthy(current.parent_code)
         THEN LET rest == LoopTurns(get_region(current.parent_code), fuel - 1)
              IN  IF rest = -1 THEN -1 ELSE 1 + rest
         ELSE 1

\* C29: in every state reached by add_region calls, build_breadcrumb ends for
\* every registered region: the loop makes at most 3 turns, every registered
\* parent is of a strictly coarser level than its child, and the list returned
\* has one element per turn
Thm_C29_BreadcrumbTerminates ==
    \A r \in RegisteredRegions :
        /\ LoopTurns(r, Len(_regions) + 1) \in 1..3
        /\ (Truthy(r.parent_code) /\ IsRegistered(r.parent_code)) =>
               LevelValue(get_region(r.parent_code).level) < LevelValue(r.level)
        /\ Len(build_breadcrumb(r.code)) = LoopTurns(r, Len(_regions) + 1)

\* C29's case: a third-level region registered under a registered second-level
\* region, whose breadcrumb has three elements
Wit_C29_ThreeLevels ==
    \E r \in RegisteredRegions :
        /\ r.level = EMD
        /\ IsRegistered(r.parent_code)
        /\ get_region(r.parent_code).level = SIGUNGU
        /\ Len(build_breadcrumb(r.code)) = 3

---------------------------------------------------------------------------
(* Recalibration of the reference *)

\* the step is a set_national_reference call
ReferenceCall == acall'.op = "set_national_reference" /\ arefs' = arefs + 1

\* the series has both ends of the caller's window, a positive elderly total
\* at the start and a window of more than one year
Recalibrates(self, national_data) ==
    /\ analyzers[self].end_year \in DOMAIN national_data
    /\ analyzers[self].start_year \in DOMAIN national_data
    /\ elderly_total(national_data[analyzers[self].start_year]) > 0
    /\ analyzers[self].start_year # analyzers[self].end_year

\* the four constants computed from the series
FromSeries(self, national_data) ==
    LET start == national_data[analyzers[self].start_year]
        latest == national_data[analyzers[self].end_year]
    IN  [aging_ratio |-> aging_ratio(latest),
         old_old_ratio |-> old_old_ratio(latest),
         dependency_ratio |-> dependency_ratio(latest),
         aging_velocity |->
             GrowthRate(elderly_total(start), elderly_total(latest),
                        analyzers[self].end_year - analyzers[self].start_year).v]

\* C30: a set_national_reference call replaces all four reference constants
\* by values computed from the series when the series has the analyzer's
\* start_year and end_year, a positive elderly total at start_year and
\* start_year # end_year; otherwise it leaves all four as they were
CE_C30_ReferenceAllOrNothing ==
    [][ReferenceCall =>
          IF Recalibrates(acall'.self, acall'.national_data)
          THEN NATIONAL_REFERENCE' = FromSeries(acall'.self, acall'.national_data)
          ELSE NATIONAL_REFERENCE' = NATIONAL_REFERENCE]_vars

\* the half that replaces: a series that recalibrates replaces all four
C30_FullSeriesReplacesAll ==
    [][(ReferenceCall /\ Recalibrates(acall'.self, acall'.national_data)) =>
          NATIONAL_REFERENCE' = FromSeries(acall'.self, acall'.national_data)]_vars

=========================================================================
